---- MODULE Spec2Model ----
(***************************************************************************)
(* Booking concurrency guard and availability ledger of the marketplace    *)
(* backend (controllers/bookingController.js, the availability controller, *)
(* socketHandlers.js and the Booking / Availability schemas).              *)
(*                                                                         *)
(* Every request handler is an async function: each `await` on the         *)
(* document store is a suspension point, so a handler is modelled as the   *)
(* sequence of its store operations, and the handlers of different         *)
(* requests interleave between them.  req[r] holds the position and the    *)
(* local variables of the handler running in request slot r and, once the  *)
(* handler has answered, the HTTP response it sent.                        *)
(*                                                                         *)
(* Dates are instants counted in hours from 2024-06-10T00:00Z; the server  *)
(* clock is taken to run in UTC, so setHours(0,0,0,0) is the start of the  *)
(* UTC day.                                                                *)
(***************************************************************************)
EXTENDS Integers, Sequences, FiniteSets, TLC

VARIABLES bookings, days, req, wallets, transactions, reviews, cache, redis, serviceDocs,
          conversations, messages, redisClient

vars == <<bookings, days, req, wallets, transactions, reviews, cache, redis, serviceDocs,
         conversations, messages, redisClient>>

\* the wallets, the WalletTransaction and Review collections, the two cache
\* stores, the Service, Conversation and Message collections and the client
\* of redisService, which the booking and availability handlers never touch
sideVars == <<wallets, transactions, reviews, cache, redis, serviceDocs,
             conversations, messages, redisClient>>

(***************************************************************************)
(* Bounds and input alphabets                                              *)
(***************************************************************************)
MaxBookings == 2

Req == {1, 2}

Users == {"p1", "c1", "c2"}

BookingDateInputs == {"2024-06-10", "2024-06-10T00:00:00.000Z", "2024-06-11"}

BookingTimeInputs == {"10:00"}

\* (newDate, newTime) of an updateBookingStatus body; "" is an absent (falsy) field
RescheduleInputs == {<<"", "">>, <<"2024-06-11", "10:00">>, <<"", "10:00">>}

ServiceIdInputs == {"s1", "s2", "s9"}

HttpStatusInputs == {"confirmed", "in_progress", "completed", "cancelled", "rejected",
                     "rescheduled"}

SocketStatusInputs == {"pending", "confirmed", "in_progress", "completed",
                       "cancelled", "rejected", "rescheduled", "bogus"}

BookingIdInputs == 1..MaxBookings

AvailProviders == {"p1"}

AvailDateInputs == {"", "2024-06-10", "2024-06-10T15:00:00.000Z"}

RangeEndInputs == {"2024-06-10", "2024-06-11"}

StartTimeInputs == {"", "07:00", "09:00"}

(***************************************************************************)
(* Documents the handlers read but never write                             *)
(***************************************************************************)
ServiceTable == [s1 |-> [provider |-> "p1", isActive |-> TRUE],
                 s2 |-> [provider |-> "p1", isActive |-> FALSE]]

ServiceFindById(id) == IF id \in DOMAIN ServiceTable THEN {ServiceTable[id]} ELSE {}

(***************************************************************************)
(* new Date(string)                                                        *)
(***************************************************************************)
ParseDate(s) ==
    CASE s = "2024-06-10"               -> 0
      [] s = "2024-06-10T00:00:00.000Z" -> 0
      [] s = "2024-06-10T15:00:00.000Z" -> 15
      [] s = "2024-06-11"               -> 24

(***************************************************************************)
(* Booking schema and status vocabulary                                    *)
(***************************************************************************)
StatusEnum == {"pending", "confirmed", "in_progress", "completed",
               "cancelled", "rejected", "rescheduled"}

validStatuses == {"confirmed", "in_progress", "completed", "cancelled", "rejected"}

ConflictStatusesNoInProgress == {"pending", "confirmed"}

ConflictStatuses == {"pending", "confirmed", "in_progress"}

\* rating.value of a booking that has none
NoRating == 0

\* status and paymentStatus take their schema defaults
NewBooking(user, provider, serviceId, date, time, totalAmount) ==
    [customer |-> user, provider |-> provider, service |-> serviceId,
     date |-> date, time |-> time, status |-> "pending",
     totalAmount |-> totalAmount, paymentStatus |-> "pending", rating |-> NoRating]

BookingIds == 1..Len(bookings)

\* Booking.findOne({provider, date, time, status: {$in: [...]}, _id: {$ne: self}})
\* (self = 0 when the query has no _id clause)
FindConflict(provider, date, time, self) ==
    {i \in BookingIds : /\ i # self
                        /\ bookings[i].provider = provider
                        /\ bookings[i].date = date
                        /\ bookings[i].time = time
                        /\ bookings[i].status \in ConflictStatuses}

(***************************************************************************)
(* Requests and responses                                                  *)
(***************************************************************************)
Idle == [pc |-> "idle"]

\* a request slot is free before its first request and after each response
Free(r) == req[r].pc \in {"idle", "done"}

\* res.status(code).json({error}) / res.json({success: true, ...})
Respond(r, op, code, error) ==
    req' = [req EXCEPT ![r] = [pc |-> "done", op |-> op, code |-> code, error |-> error]]

\* res.json({success: true, data})
RespondData(r, op, data) ==
    req' = [req EXCEPT ![r] = [pc |-> "done", op |-> op, code |-> 200, error |-> "",
                               data |-> data]]

(***************************************************************************)
(* createBooking                                                           *)
(***************************************************************************)
\* line 9: the handler is entered with req.user and req.body
CreateBookingReceive(r, user, serviceId, date, time, totalAmount) ==
    /\ UNCHANGED sideVars
    /\ Free(r)
    /\ Len(bookings) + Cardinality({q \in Req : req[q].pc \in {"cb_find", "cb_save"}})
          < MaxBookings
    /\ req' = [req EXCEPT ![r] = [pc |-> "cb_find", user |-> user, service |-> serviceId,
                                  date |-> date, time |-> time,
                                  totalAmount |-> totalAmount]]
    /\ UNCHANGED <<bookings, days>>

\* lines 12-32: validate the service, look for a conflicting booking
CreateBookingFind(r) ==
    /\ UNCHANGED sideVars
    /\ req[r].pc = "cb_find"
    /\ UNCHANGED <<bookings, days>>
    /\ LET found == ServiceFindById(req[r].service) IN
       IF found = {} \/ (\E s \in found : ~s.isActive)
       THEN Respond(r, "createBooking", 404, "Service not found or inactive")
       ELSE LET service == CHOOSE s \in found : TRUE IN
            IF service.provider = req[r].user
            THEN Respond(r, "createBooking", 400, "Cannot book your own service")
            ELSE IF FindConflict(service.provider, ParseDate(req[r].date), req[r].time, 0) # {}
            THEN Respond(r, "createBooking", 400, "Provider is not available at this time")
            ELSE req' = [req EXCEPT ![r] =
                           [pc |-> "cb_save", user |-> req[r].user, service |-> req[r].service,
                            provider |-> service.provider, date |-> ParseDate(req[r].date),
                            time |-> req[r].time, totalAmount |-> req[r].totalAmount]]

\* lines 34-68: insert the booking, then create the notification and answer;
\* a failing Notification.create lands in the catch block (500) after the insert
CreateBookingSave(r) ==
    /\ UNCHANGED sideVars
    /\ req[r].pc = "cb_save"
    /\ bookings' = Append(bookings, NewBooking(req[r].user, req[r].provider,
                                               req[r].service, req[r].date, req[r].time,
                                               req[r].totalAmount))
    /\ \E notified \in BOOLEAN :
          IF notified THEN Respond(r, "createBooking", 201, "")
                      ELSE Respond(r, "createBooking", 500, "Server error")
    /\ UNCHANGED days

(***************************************************************************)
(* updateBookingStatus                                                     *)
(***************************************************************************)
\* lines 167-188 without the completed rule of lines 190-193
RoleDeniedNoCompletedRule(booking, user, status) ==
    IF booking.provider # user /\ booking.customer # user
    THEN "Access denied"
    ELSE IF status \in {"confirmed", "rejected"} /\ booking.provider # user
    THEN "Only provider can update status to confirmed/rejected"
    ELSE IF status = "cancelled" /\ booking.customer # user
    THEN "Only customer can cancel booking"
    ELSE ""

\* lines 167-193: the 403 answers; "" when the actor passes every role check
RoleDenied(booking, user, status) ==
    IF booking.provider # user /\ booking.customer # user
    THEN "Access denied"
    ELSE IF status \in {"confirmed", "rejected"} /\ booking.provider # user
    THEN "Only provider can update status to confirmed/rejected"
    ELSE IF status = "cancelled" /\ booking.customer # user
    THEN "Only customer can cancel booking"
    ELSE IF status = "completed" /\ booking.provider # user
    THEN "Only provider can mark booking as completed"
    ELSE ""

\* line 154: the handler is entered with req.user, req.params.id and req.body
UpdateBookingStatusReceive(r, user, id, status, newDate, newTime) ==
    /\ UNCHANGED sideVars
    /\ Free(r)
    /\ req' = [req EXCEPT ![r] = [pc |-> "ub_load", user |-> user, id |-> id,
                                  status |-> status, newDate |-> newDate,
                                  newTime |-> newTime]]
    /\ UNCHANGED <<bookings, days>>

\* lines 155-209 and 253: validation, Booking.findById, the role checks, then
\* either the synchronous part of the reschedule branch or the assignment
\* booking.status = status.  The handler keeps the loaded document; of it the
\* later steps use the provider and which assigned paths differ from the loaded
\* values (the paths booking.save() will $set).
UpdateBookingStatusLoad(r) ==
    /\ UNCHANGED sideVars
    /\ req[r].pc = "ub_load"
    /\ UNCHANGED <<bookings, days>>
    /\ LET user == req[r].user
           id == req[r].id
           status == req[r].status
           newDate == req[r].newDate
           newTime == req[r].newTime
       IN
       IF status \notin validStatuses
       THEN Respond(r, "updateBookingStatus", 400, "Invalid status")
       ELSE IF id \notin BookingIds
       THEN Respond(r, "updateBookingStatus", 404, "Booking not found")
       ELSE LET booking == bookings[id] IN
            IF RoleDenied(booking, user, status) # ""
            THEN Respond(r, "updateBookingStatus", 403, RoleDenied(booking, user, status))
            ELSE IF newDate # "" \/ newTime # ""
            THEN IF booking.customer # user
                 THEN Respond(r, "updateBookingStatus", 403,
                              "Only customer can request rescheduling")
                 ELSE IF booking.status # "confirmed" \/ booking.status = "completed"
                 THEN Respond(r, "updateBookingStatus", 400,
                              "Can only reschedule confirmed bookings")
                 ELSE LET newBookingDate == IF newDate # "" THEN ParseDate(newDate)
                                            ELSE booking.date
                          newBookingTime == IF newTime # "" THEN newTime ELSE booking.time
                      IN req' = [req EXCEPT ![r] =
                                   [pc |-> "ub_find", id |-> id,
                                    provider |-> booking.provider,
                                    newBookingDate |-> newBookingDate,
                                    newBookingTime |-> newBookingTime,
                                    modified |-> {f \in {"date", "time", "status"} :
                                        [date |-> newBookingDate, time |-> newBookingTime,
                                         status |-> "rescheduled"][f] # booking[f]}]]
            ELSE req' = [req EXCEPT ![r] =
                           [pc |-> "ub_save", id |-> id, status |-> status,
                            modified |-> IF status # booking.status THEN {"status"} ELSE {}]]

\* lines 211-221: the conflict query of the reschedule branch
UpdateBookingStatusFind(r) ==
    /\ UNCHANGED sideVars
    /\ req[r].pc = "ub_find"
    /\ UNCHANGED <<bookings, days>>
    /\ IF FindConflict(req[r].provider, req[r].newBookingDate,
                       req[r].newBookingTime, req[r].id) # {}
       THEN Respond(r, "updateBookingStatus", 400, "Provider is not available at this time")
       ELSE req' = [req EXCEPT ![r].pc = "ub_reschedule"]

\* booking.save(): an update that $sets the modified paths of the document
SaveBooking(id, modified, values) ==
    [bookings EXCEPT ![id] =
        [f \in DOMAIN @ |-> IF f \in modified THEN values[f] ELSE @[f]]]

\* lines 223-249: Notification.create comes first; when it fails the catch block
\* answers 500 and the booking is not saved
UpdateBookingStatusReschedule(r) ==
    /\ UNCHANGED sideVars
    /\ req[r].pc = "ub_reschedule"
    /\ \E notified \in BOOLEAN :
          IF notified
          THEN /\ bookings' = SaveBooking(req[r].id, req[r].modified,
                                 [date |-> req[r].newBookingDate,
                                  time |-> req[r].newBookingTime,
                                  status |-> "rescheduled"])
               /\ Respond(r, "updateBookingStatus", 200, "")
          ELSE /\ Respond(r, "updateBookingStatus", 500, "Server error")
               /\ UNCHANGED bookings
    /\ UNCHANGED days

\* lines 260-323: save the new status, then create the notification and answer
UpdateBookingStatusSave(r) ==
    /\ UNCHANGED sideVars
    /\ req[r].pc = "ub_save"
    /\ bookings' = SaveBooking(req[r].id, req[r].modified, [status |-> req[r].status])
    /\ \E notified \in BOOLEAN :
          IF notified THEN Respond(r, "updateBookingStatus", 200, "")
                      ELSE Respond(r, "updateBookingStatus", 500, "Server error")
    /\ UNCHANGED days

(***************************************************************************)
(* socket event 'bookingStatusUpdate'                                      *)
(***************************************************************************)
\* socketHandlers.js lines 66-102: any connected user, any bookingId, any status;
\* Booking.findByIdAndUpdate(bookingId, {status}) is an update query, which runs
\* no schema validators
BookingStatusUpdate(id, status) ==
    /\ UNCHANGED sideVars
    /\ id \in BookingIds
    /\ bookings' = [bookings EXCEPT ![id].status = status]
    /\ UNCHANGED <<days, req>>

(***************************************************************************)
(* Availability schema                                                     *)
(***************************************************************************)
\* bookingId: default null
NullId == 0

\* the clock reading taken by new Date()
Now == ParseDate("2024-06-10T15:00:00.000Z")

\* date.setHours(0, 0, 0, 0)
StartOfDay(d) == d - (d % 24)

\* date.setHours(23, 59, 59, 999), to the hour
EndOfDay(d) == StartOfDay(d) + 23

Digit == <<"0", "1", "2", "3", "4", "5", "6", "7", "8", "9">>

\* Number.prototype.toString() of a number below 100
NumberToString(n) == IF n < 10 THEN Digit[n + 1] ELSE Digit[(n \div 10) + 1] \o Digit[(n % 10) + 1]

\* String.prototype.padStart(2, '0')
PadStart2(str) == IF Len(str) < 2 THEN "0" \o str ELSE str

Slot(startTime, endTime, isBooked, bookingId) ==
    [startTime |-> startTime, endTime |-> endTime, isBooked |-> isBooked,
     bookingId |-> bookingId]

\* the same loop without padStart
generateDefaultSlotsNoPad ==
    [i \in 1..(20 - 8) |->
        Slot(NumberToString(8 + i - 1) \o ":00", NumberToString(8 + i) \o ":00",
             FALSE, NullId)]

generateDefaultSlots ==
    [i \in 1..(20 - 8) |->
        Slot(PadStart2(NumberToString(8 + i - 1)) \o ":00", PadStart2(NumberToString(8 + i)) \o ":00",
             FALSE, NullId)]

RECURSIVE generateDateRange(_, _)
generateDateRange(currentDate, endDate) ==
    IF currentDate <= endDate
    THEN <<currentDate>> \o generateDateRange(currentDate + 24, endDate)
    ELSE << >>

NoDay == [exists |-> FALSE]

DayDoc(slots, isAvailable) == [exists |-> TRUE, slots |-> slots, isAvailable |-> isAvailable]

DayKeys == AvailProviders \X {0, 24}

\* Availability.findOne({provider, date})
FindDay(provider, date) ==
    IF <<provider, date>> \in DOMAIN days THEN days[<<provider, date>>] ELSE NoDay

\* slots.findIndex(slot => slot.startTime === startTime); 0 stands for -1
FindSlotIndex(slots, startTime) ==
    IF \E i \in 1..Len(slots) : slots[i].startTime = startTime
    THEN CHOOSE i \in 1..Len(slots) :
            /\ slots[i].startTime = startTime
            /\ \A j \in 1..(i - 1) : slots[j].startTime # startTime
    ELSE 0

\* slots.findIndex(slot => slot.startTime === startTime &&
\*                         slot.bookingId.toString() === bookingId):
\* the callback throws a TypeError on the first slot of that startTime whose
\* bookingId is null, if no earlier slot matched
RECURSIVE FindBookedSlotIndex(_, _, _, _)
FindBookedSlotIndex(slots, startTime, bookingId, i) ==
    IF i > Len(slots) THEN [threw |-> FALSE, index |-> 0]
    ELSE IF slots[i].startTime # startTime
    THEN FindBookedSlotIndex(slots, startTime, bookingId, i + 1)
    ELSE IF slots[i].bookingId = NullId THEN [threw |-> TRUE, index |-> 0]
    ELSE IF slots[i].bookingId = bookingId THEN [threw |-> FALSE, index |-> i]
    ELSE FindBookedSlotIndex(slots, startTime, bookingId, i + 1)

\* Availability.create() on a collection without the unique index
CanCreateDayNoIndex(key) == TRUE

\* Availability.create(): the unique index on (provider, date) rejects a second
\* document for the pair
CanCreateDay(key) == ~days[key].exists

\* A save() that sets a path below slots.<i> carries the document's version
\* (__v) in its filter, and a save() that replaces the slots array also
\* increments it.  req[q].stale tells that the version request q loaded is no
\* longer the stored one.
MarkStale(key, r) ==
    [q \in Req |-> IF q # r /\ req[q].pc \in {"ua_save", "bs_save", "us_save"}
                           /\ req[q].key = key
                   THEN [req[q] EXCEPT !.stale = TRUE]
                   ELSE req[q]]

(***************************************************************************)
(* getAvailability                                                         *)
(***************************************************************************)
GetAvailabilityReceive(r, providerId, date) ==
    /\ UNCHANGED sideVars
    /\ Free(r)
    /\ req' = [req EXCEPT ![r] = [pc |-> "ga_find", providerId |-> providerId,
                                  date |-> date]]
    /\ UNCHANGED <<bookings, days>>

\* lines 7-22
GetAvailabilityFind(r) ==
    /\ UNCHANGED sideVars
    /\ req[r].pc = "ga_find"
    /\ UNCHANGED <<bookings, days>>
    /\ IF req[r].providerId = ""
       THEN Respond(r, "getAvailability", 400, "Provider ID is required")
       ELSE LET queryDate == StartOfDay(IF req[r].date # "" THEN ParseDate(req[r].date)
                                        ELSE Now) IN
            IF FindDay(req[r].providerId, queryDate).exists
            THEN RespondData(r, "getAvailability",
                             FindDay(req[r].providerId, queryDate).slots)
            ELSE req' = [req EXCEPT ![r] = [pc |-> "ga_create",
                                            key |-> <<req[r].providerId, queryDate>>]]

\* lines 24-35
GetAvailabilityCreate(r) ==
    /\ UNCHANGED sideVars
    /\ req[r].pc = "ga_create"
    /\ UNCHANGED bookings
    /\ IF CanCreateDay(req[r].key)
       THEN /\ days' = [days EXCEPT ![req[r].key] = DayDoc(generateDefaultSlots, TRUE)]
            /\ RespondData(r, "getAvailability", days'[req[r].key].slots)
       ELSE /\ Respond(r, "getAvailability", 500, "Server error")
            /\ UNCHANGED days

(***************************************************************************)
(* getAvailabilityRange                                                    *)
(***************************************************************************)
GetAvailabilityRangeReceive(r, providerId, startDate, endDate) ==
    /\ UNCHANGED sideVars
    /\ Free(r)
    /\ req' = [req EXCEPT ![r] = [pc |-> "gr_find", providerId |-> providerId,
                                  startDate |-> startDate, endDate |-> endDate]]
    /\ UNCHANGED <<bookings, days>>

\* lines 45-67: the range query and the dates of the range it did not return
GetAvailabilityRangeFind(r) ==
    /\ UNCHANGED sideVars
    /\ req[r].pc = "gr_find"
    /\ UNCHANGED <<bookings, days>>
    /\ IF req[r].providerId = ""
       THEN Respond(r, "getAvailabilityRange", 400, "Provider ID is required")
       ELSE LET start == StartOfDay(IF req[r].startDate # "" THEN ParseDate(req[r].startDate)
                                    ELSE Now)
                end == EndOfDay(ParseDate(req[r].endDate))
                found == {k \in DOMAIN days : /\ k[1] = req[r].providerId
                                              /\ days[k].exists
                                              /\ start <= k[2] /\ k[2] <= end}
                missing == SelectSeq(generateDateRange(start, end),
                              LAMBDA date : ~\E k \in found : StartOfDay(k[2]) = StartOfDay(date))
            IN IF missing = << >>
               THEN Respond(r, "getAvailabilityRange", 200, "")
               ELSE req' = [req EXCEPT ![r] = [pc |-> "gr_create",
                                               providerId |-> req[r].providerId,
                                               todo |-> missing]]

\* lines 68-84: one Availability.create per missing date
GetAvailabilityRangeCreate(r) ==
    /\ UNCHANGED sideVars
    /\ req[r].pc = "gr_create"
    /\ UNCHANGED bookings
    /\ LET key == <<req[r].providerId, Head(req[r].todo)>> IN
       IF CanCreateDay(key)
       THEN /\ days' = [days EXCEPT ![key] = DayDoc(generateDefaultSlots, TRUE)]
            /\ IF Tail(req[r].todo) = << >>
               THEN Respond(r, "getAvailabilityRange", 200, "")
               ELSE req' = [req EXCEPT ![r].todo = Tail(@)]
       ELSE /\ Respond(r, "getAvailabilityRange", 500, "Server error")
            /\ UNCHANGED days

(***************************************************************************)
(* updateAvailability                                                      *)
(***************************************************************************)
\* slots and isAvailable are [given |-> BOOLEAN, value |-> ...]: a body field
\* that is undefined has given = FALSE
UpdateAvailabilityReceive(r, user, date, slots, isAvailable) ==
    /\ UNCHANGED sideVars
    /\ Free(r)
    /\ req' = [req EXCEPT ![r] = [pc |-> "ua_find", user |-> user, date |-> date,
                                  slots |-> slots, isAvailable |-> isAvailable]]
    /\ UNCHANGED <<bookings, days>>

\* lines 94-109 and 119-124
UpdateAvailabilityFind(r) ==
    /\ UNCHANGED sideVars
    /\ req[r].pc = "ua_find"
    /\ UNCHANGED <<bookings, days>>
    /\ IF req[r].date = ""
       THEN Respond(r, "updateAvailability", 400, "Date is required")
       ELSE LET key == <<req[r].user, StartOfDay(ParseDate(req[r].date))>>
                availability == FindDay(key[1], key[2])
            IN IF ~availability.exists
               THEN req' = [req EXCEPT ![r] = [pc |-> "ua_create", key |-> key,
                                               slots |-> req[r].slots,
                                               isAvailable |-> req[r].isAvailable]]
               ELSE req' = [req EXCEPT ![r] =
                              [pc |-> "ua_save", key |-> key, slots |-> req[r].slots,
                               isAvailable |-> req[r].isAvailable.value,
                               modified |-> /\ req[r].isAvailable.given
                                            /\ req[r].isAvailable.value # availability.isAvailable,
                               stale |-> FALSE]]

\* lines 111-116
UpdateAvailabilityCreate(r) ==
    /\ UNCHANGED sideVars
    /\ req[r].pc = "ua_create"
    /\ UNCHANGED bookings
    /\ IF CanCreateDay(req[r].key)
       THEN /\ days' = [days EXCEPT ![req[r].key] =
                          DayDoc(IF req[r].slots.given THEN req[r].slots.value
                                 ELSE generateDefaultSlots,
                                 IF req[r].isAvailable.given THEN req[r].isAvailable.value
                                 ELSE TRUE)]
            /\ Respond(r, "updateAvailability", 200, "")
       ELSE /\ Respond(r, "updateAvailability", 500, "Server error")
            /\ UNCHANGED days

\* lines 125-131
UpdateAvailabilitySave(r) ==
    /\ UNCHANGED sideVars
    /\ req[r].pc = "ua_save"
    /\ UNCHANGED bookings
    /\ LET day == days[req[r].key]
           withAvail == IF req[r].modified THEN [day EXCEPT !.isAvailable = req[r].isAvailable]
                        ELSE day
           answer == [pc |-> "done", op |-> "updateAvailability", code |-> 200, error |-> ""]
       IN IF ~req[r].slots.given
          THEN /\ days' = [days EXCEPT ![req[r].key] = withAvail]
               /\ Respond(r, "updateAvailability", 200, "")
          ELSE IF req[r].stale
          THEN /\ Respond(r, "updateAvailability", 500, "Server error")
               /\ UNCHANGED days
          ELSE /\ days' = [days EXCEPT ![req[r].key] =
                             [withAvail EXCEPT !.slots = req[r].slots.value]]
               /\ req' = [MarkStale(req[r].key, r) EXCEPT ![r] = answer]

(***************************************************************************)
(* bookSlot                                                                *)
(***************************************************************************)
BookSlotReceive(r, user, date, startTime, bookingId) ==
    /\ UNCHANGED sideVars
    /\ Free(r)
    /\ req' = [req EXCEPT ![r] = [pc |-> "bs_load", user |-> user, date |-> date,
                                  startTime |-> startTime, bookingId |-> bookingId]]
    /\ UNCHANGED <<bookings, days>>

\* lines 160-163 without the isBooked test of lines 165-167
BookSlotRefusalNoBookedCheck(slots, startTime) ==
    IF FindSlotIndex(slots, startTime) = 0 THEN "Time slot not found" ELSE ""

\* what lines 160-167 answer for the loaded slots; "" lets the booking proceed
BookSlotRefusal(slots, startTime) ==
    IF FindSlotIndex(slots, startTime) = 0 THEN "Time slot not found"
    ELSE IF slots[FindSlotIndex(slots, startTime)].isBooked THEN "Time slot is already booked"
    ELSE ""

\* lines 141-170
BookSlotLoad(r) ==
    /\ UNCHANGED sideVars
    /\ req[r].pc = "bs_load"
    /\ UNCHANGED <<bookings, days>>
    /\ IF req[r].date = "" \/ req[r].startTime = "" \/ req[r].bookingId = NullId
       THEN Respond(r, "bookSlot", 400, "Date, start time, and booking ID are required")
       ELSE LET key == <<req[r].user, StartOfDay(ParseDate(req[r].date))>>
                availability == FindDay(key[1], key[2])
            IN IF ~availability.exists
               THEN Respond(r, "bookSlot", 404, "Availability not found for this date")
               ELSE IF BookSlotRefusal(availability.slots, req[r].startTime) # ""
               THEN Respond(r, "bookSlot", 400,
                            BookSlotRefusal(availability.slots, req[r].startTime))
               ELSE LET slotIndex == FindSlotIndex(availability.slots, req[r].startTime) IN
                    req' = [req EXCEPT ![r] =
                              [pc |-> "bs_save", key |-> key, slotIndex |-> slotIndex,
                               bookingId |-> req[r].bookingId,
                               modified |-> {f \in {"isBooked", "bookingId"} :
                                   [isBooked |-> TRUE, bookingId |-> req[r].bookingId][f]
                                       # availability.slots[slotIndex][f]},
                               stale |-> FALSE]]

\* availability.save(): $set of the modified paths below slots.<slotIndex>,
\* filtered on the loaded version
SaveSlot(key, slotIndex, modified, values) ==
    [days EXCEPT ![key].slots[slotIndex] =
        [f \in DOMAIN @ |-> IF f \in modified THEN values[f] ELSE @[f]]]

\* lines 172-177
BookSlotSave(r) ==
    /\ UNCHANGED sideVars
    /\ req[r].pc = "bs_save"
    /\ UNCHANGED bookings
    /\ IF req[r].stale
       THEN /\ Respond(r, "bookSlot", 500, "Server error")
            /\ UNCHANGED days
       ELSE /\ days' = SaveSlot(req[r].key, req[r].slotIndex, req[r].modified,
                                [isBooked |-> TRUE, bookingId |-> req[r].bookingId])
            /\ Respond(r, "bookSlot", 200, "")

(***************************************************************************)
(* unbookSlot                                                              *)
(***************************************************************************)
UnbookSlotReceive(r, user, date, startTime, bookingId) ==
    /\ UNCHANGED sideVars
    /\ Free(r)
    /\ req' = [req EXCEPT ![r] = [pc |-> "us_load", user |-> user, date |-> date,
                                  startTime |-> startTime, bookingId |-> bookingId]]
    /\ UNCHANGED <<bookings, days>>

\* lines 187-215
UnbookSlotLoad(r) ==
    /\ UNCHANGED sideVars
    /\ req[r].pc = "us_load"
    /\ UNCHANGED <<bookings, days>>
    /\ IF req[r].date = "" \/ req[r].startTime = "" \/ req[r].bookingId = NullId
       THEN Respond(r, "unbookSlot", 400, "Date, start time, and booking ID are required")
       ELSE LET key == <<req[r].user, StartOfDay(ParseDate(req[r].date))>>
                availability == FindDay(key[1], key[2])
            IN IF ~availability.exists
               THEN Respond(r, "unbookSlot", 404, "Availability not found for this date")
               ELSE LET found == FindBookedSlotIndex(availability.slots, req[r].startTime,
                                                     req[r].bookingId, 1) IN
                    IF found.threw
                    THEN Respond(r, "unbookSlot", 500, "Server error")
                    ELSE IF found.index = 0
                    THEN Respond(r, "unbookSlot", 400,
                                 "Time slot not found or does not match booking")
                    ELSE req' = [req EXCEPT ![r] =
                                   [pc |-> "us_save", key |-> key, slotIndex |-> found.index,
                                    modified |-> {f \in {"isBooked", "bookingId"} :
                                        [isBooked |-> FALSE, bookingId |-> NullId][f]
                                            # availability.slots[found.index][f]},
                                    stale |-> FALSE]]

\* lines 217-222
UnbookSlotSave(r) ==
    /\ UNCHANGED sideVars
    /\ req[r].pc = "us_save"
    /\ UNCHANGED bookings
    /\ IF req[r].stale
       THEN /\ Respond(r, "unbookSlot", 500, "Server error")
            /\ UNCHANGED days
       ELSE /\ days' = SaveSlot(req[r].key, req[r].slotIndex, req[r].modified,
                                [isBooked |-> FALSE, bookingId |-> NullId])
            /\ Respond(r, "unbookSlot", 200, "")

(***************************************************************************)
(* Wallet                                                                  *)
(***************************************************************************)
\* wallet.balance of the stored users: the schema default 0, and 10,000 for
\* customer c1
OpeningBalance == [p1 |-> 0, c1 |-> 10000, c2 |-> 0]

TotalAmountInputs == {0, 3000}

\* wallet.transactions declared as an array of subdocuments
\* [{ type: { type: String }, amount: Number, ... }]
WalletTransactionsCasterSubdocument == "Subdocument"

\* userSchema declares wallet.transactions as
\* [{ type: String, amount: Number, description: String, date: {...} }]: the
\* key `type` is the schema's typeKey, so the element type of the array is
\* String and amount, description and date are options of that String type
WalletTransactionsCaster == "String"

\* a caster that stringifies whatever it is given
CastFailsNever(caster, kind) == FALSE

\* casting a pushed value to the element type of the array: a plain object has
\* no string form (its toString is Object.prototype.toString), so the String
\* caster throws a CastError for it
CastFails(caster, kind) == caster = "String" /\ kind = "object"

\* user.wallet.transactions.push({...}) of lines 103 and 132
PushThrows == CastFails(WalletTransactionsCaster, "object")

\* new WalletTransaction({...}) of lines 112-124 and 141-153
WalletTransaction(user, type, amount, bookingId) ==
    [user |-> user, type |-> type, amount |-> amount, bookingId |-> bookingId]

\* line 70: the handler is entered with req.user and req.body.bookingId
ProcessBookingPaymentReceive(r, user, bookingId) ==
    /\ Free(r)
    /\ req' = [req EXCEPT ![r] = [pc |-> "pp_load", user |-> user, id |-> bookingId]]
    /\ UNCHANGED <<bookings, days, sideVars>>

\* lines 72-85
ProcessBookingPaymentLoad(r) ==
    /\ req[r].pc = "pp_load"
    /\ UNCHANGED <<bookings, days, sideVars>>
    /\ IF req[r].id \notin BookingIds
       THEN Respond(r, "processBookingPayment", 404, "Booking not found")
       ELSE LET booking == bookings[req[r].id] IN
            IF booking.customer # req[r].user
            THEN Respond(r, "processBookingPayment", 403, "Access denied")
            ELSE IF booking.paymentStatus # "pending"
            THEN Respond(r, "processBookingPayment", 400, "Payment already processed")
            ELSE req' = [req EXCEPT ![r] =
                           [pc |-> "pp_user", user |-> req[r].user, id |-> req[r].id,
                            provider |-> booking.provider,
                            totalAmount |-> booking.totalAmount,
                            paymentStatus |-> booking.paymentStatus]]

\* lines 88-94
ProcessBookingPaymentUser(r) ==
    /\ req[r].pc = "pp_user"
    /\ UNCHANGED <<bookings, days, sideVars>>
    /\ IF wallets[req[r].user].balance < req[r].totalAmount
       THEN Respond(r, "processBookingPayment", 400, "Insufficient balance")
       ELSE req' = [req EXCEPT ![r] =
                      [pc |-> "pp_try", step |-> "debit", user |-> req[r].user,
                       id |-> req[r].id, provider |-> req[r].provider,
                       totalAmount |-> req[r].totalAmount,
                       paymentStatus |-> req[r].paymentStatus,
                       balance |-> wallets[req[r].user].balance,
                       providerBalance |-> 0]]

\* lines 97-213, the try block, one store operation per step.  None of the
\* saves is given the session, so session.abortTransaction() in the catch block
\* undoes nothing; the catch block rethrows and the handler answers 500.
ProcessBookingPaymentTry(r) ==
    /\ req[r].pc = "pp_try"
    /\ UNCHANGED <<days, reviews, cache, redis, serviceDocs,
                 conversations, messages, redisClient>>
    /\ LET amount == req[r].totalAmount
           abort == [pc |-> "done", op |-> "processBookingPayment", code |-> 500,
                     error |-> "Server error"]
       IN CASE req[r].step = "debit" ->
                 \* lines 102-108
                 IF PushThrows
                 THEN /\ req' = [req EXCEPT ![r] = abort]
                      /\ UNCHANGED <<bookings, wallets, transactions>>
                 ELSE /\ wallets' = [wallets EXCEPT
                                       ![req[r].user].balance = req[r].balance - amount,
                                       ![req[r].user].transactions =
                                           Append(@, [type |-> "debit", amount |-> amount])]
                      /\ req' = [req EXCEPT ![r].step = "transaction"]
                      /\ UNCHANGED <<bookings, transactions>>
            [] req[r].step = "transaction" ->
                 \* lines 111-125; the schema refuses a negative amount
                 IF amount < 0
                 THEN /\ req' = [req EXCEPT ![r] = abort]
                      /\ UNCHANGED <<bookings, wallets, transactions>>
                 ELSE /\ transactions' = Append(transactions,
                                                WalletTransaction(req[r].user, "debit", amount,
                                                                  req[r].id))
                      /\ req' = [req EXCEPT ![r].step = "provider"]
                      /\ UNCHANGED <<bookings, wallets>>
            [] req[r].step = "provider" ->
                 \* lines 128-129
                 /\ req' = [req EXCEPT ![r].step = "credit",
                                       ![r].providerBalance = wallets[req[r].provider].balance]
                 /\ UNCHANGED <<bookings, wallets, transactions>>
            [] req[r].step = "credit" ->
                 \* lines 131-137
                 IF PushThrows
                 THEN /\ req' = [req EXCEPT ![r] = abort]
                      /\ UNCHANGED <<bookings, wallets, transactions>>
                 ELSE /\ wallets' = [wallets EXCEPT
                                       ![req[r].provider].balance = req[r].providerBalance + amount,
                                       ![req[r].provider].transactions =
                                           Append(@, [type |-> "credit", amount |-> amount])]
                      /\ req' = [req EXCEPT ![r].step = "providerTransaction"]
                      /\ UNCHANGED <<bookings, transactions>>
            [] req[r].step = "providerTransaction" ->
                 \* lines 140-154
                 /\ transactions' = Append(transactions,
                                           WalletTransaction(req[r].provider, "credit", amount,
                                                             req[r].id))
                 /\ req' = [req EXCEPT ![r].step = "booking"]
                 /\ UNCHANGED <<bookings, wallets>>
            [] req[r].step = "booking" ->
                 \* lines 157-207
                 /\ bookings' = SaveBooking(req[r].id,
                                            {f \in {"paymentStatus"} : req[r].paymentStatus # "paid"},
                                            [paymentStatus |-> "paid"])
                 /\ Respond(r, "processBookingPayment", 200, "")
                 /\ UNCHANGED <<wallets, transactions>>

(***************************************************************************)
(* addFunds                                                                *)
(***************************************************************************)
AmountInputs == {0, 50, 500}

\* the validated route: body('amount').isFloat({ min: 100, max: 10000000 })
AmountIsValid(amount) == amount >= 100 /\ amount <= 10000000

\* lines 222-239: the validation result, then the handler's own range checks.
\* The repository holds two wallet route files, one with the validator chain
\* and one without: validated says which of them serves the request.
AddFundsReceive(r, user, amount) ==
    /\ Free(r)
    /\ UNCHANGED <<bookings, days, sideVars>>
    /\ \E validated \in BOOLEAN :
          IF validated /\ ~AmountIsValid(amount)
          THEN Respond(r, "addFunds", 400, "Validation failed")
          ELSE IF amount <= 0
          THEN Respond(r, "addFunds", 400, "Amount must be a positive number")
          ELSE IF amount > 10000000
          THEN Respond(r, "addFunds", 400, "Amount exceeds maximum allowed")
          ELSE req' = [req EXCEPT ![r] = [pc |-> "af_user", user |-> user,
                                          amount |-> amount]]

\* lines 241-242: User.findById
AddFundsUser(r) ==
    /\ req[r].pc = "af_user"
    /\ UNCHANGED <<bookings, days, sideVars>>
    /\ req' = [req EXCEPT ![r] = [pc |-> "af_save", step |-> "credit",
                                  user |-> req[r].user, amount |-> req[r].amount,
                                  balance |-> wallets[req[r].user].balance]]

\* lines 246-297, one store operation per step: the push and user.save(), which
\* $sets wallet.balance to the value computed from the balance read at line
\* 241, then the ledger record and the answer
AddFundsSave(r) ==
    /\ req[r].pc = "af_save"
    /\ UNCHANGED <<bookings, days, reviews, cache, redis, serviceDocs,
                 conversations, messages, redisClient>>
    /\ CASE req[r].step = "credit" ->
                 \* lines 246-252
                 IF PushThrows
                 THEN /\ Respond(r, "addFunds", 500, "Server error")
                      /\ UNCHANGED <<wallets, transactions>>
                 ELSE /\ wallets' = [wallets EXCEPT
                                       ![req[r].user].balance = req[r].balance + req[r].amount,
                                       ![req[r].user].transactions =
                                           Append(@, [type |-> "credit",
                                                      amount |-> req[r].amount])]
                      /\ req' = [req EXCEPT ![r].step = "transaction"]
                      /\ UNCHANGED transactions
            [] req[r].step = "transaction" ->
                 \* lines 255-294
                 /\ transactions' = Append(transactions,
                                           WalletTransaction(req[r].user, "credit",
                                                             req[r].amount, NullId))
                 /\ Respond(r, "addFunds", 200, "")
                 /\ UNCHANGED wallets

(***************************************************************************)
(* addRating and createReview                                              *)
(***************************************************************************)
RatingInputs == {0, 2, 5}

\* Booking.findOne({_id, customer, status: 'completed'})
FindCompletedBooking(id, user) ==
    {i \in BookingIds : /\ i = id
                        /\ bookings[i].customer = user
                        /\ bookings[i].status = "completed"}

\* bookingController.js line 329
AddRatingReceive(r, user, id, rating) ==
    /\ Free(r)
    /\ req' = [req EXCEPT ![r] = [pc |-> "ar_find", user |-> user, id |-> id,
                                  rating |-> rating]]
    /\ UNCHANGED <<bookings, days, sideVars>>

\* lines 331-347
AddRatingFind(r) ==
    /\ req[r].pc = "ar_find"
    /\ UNCHANGED <<bookings, days, sideVars>>
    /\ IF req[r].rating < 1 \/ req[r].rating > 5
       THEN Respond(r, "addRating", 400, "Rating must be between 1 and 5")
       ELSE IF FindCompletedBooking(req[r].id, req[r].user) = {}
       THEN Respond(r, "addRating", 404, "Booking not found or not completed")
       ELSE IF bookings[req[r].id].rating # NoRating
       THEN Respond(r, "addRating", 400, "Booking already rated")
       ELSE req' = [req EXCEPT ![r].pc = "ar_save"]

\* lines 350-401: the rating is saved, then the averages of the provider and of
\* the service are recomputed
AddRatingSave(r) ==
    /\ req[r].pc = "ar_save"
    /\ bookings' = SaveBooking(req[r].id, {"rating"}, [rating |-> req[r].rating])
    /\ Respond(r, "addRating", 200, "")
    /\ UNCHANGED <<days, sideVars>>

\* the review controller, line 9
CreateReviewReceive(r, user, bookingId, rating) ==
    /\ Free(r)
    /\ req' = [req EXCEPT ![r] = [pc |-> "cr_find", user |-> user, id |-> bookingId,
                                  rating |-> rating]]
    /\ UNCHANGED <<bookings, days, sideVars>>

\* lines 12-30: the booking query, then Review.findOne({customer, booking})
CreateReviewFind(r) ==
    /\ req[r].pc = "cr_find"
    /\ UNCHANGED <<bookings, days, sideVars>>
    /\ IF FindCompletedBooking(req[r].id, req[r].user) = {}
       THEN Respond(r, "createReview", 404, "Booking not found or not completed")
       ELSE IF \E i \in 1..Len(reviews) : /\ reviews[i].customer = req[r].user
                                          /\ reviews[i].booking = req[r].id
       THEN Respond(r, "createReview", 400, "You have already reviewed this booking")
       ELSE req' = [req EXCEPT ![r].pc = "cr_insert"]

\* lines 33-43: review.save(), which validates rating against min 1, max 5
CreateReviewInsert(r) ==
    /\ req[r].pc = "cr_insert"
    /\ UNCHANGED <<bookings, days, wallets, transactions, cache, redis, serviceDocs,
                 conversations, messages, redisClient>>
    /\ IF req[r].rating < 1 \/ req[r].rating > 5
       THEN /\ Respond(r, "createReview", 500, "Server error")
            /\ UNCHANGED reviews
       ELSE /\ reviews' = Append(reviews, [customer |-> req[r].user, booking |-> req[r].id,
                                           rating |-> req[r].rating])
            /\ req' = [req EXCEPT ![r].pc = "cr_save"]

\* lines 46-86: the booking's rating is overwritten with the review's, then the
\* averages are recomputed
CreateReviewSave(r) ==
    /\ req[r].pc = "cr_save"
    /\ bookings' = SaveBooking(req[r].id, {"rating"}, [rating |-> req[r].rating])
    /\ Respond(r, "createReview", 201, "")
    /\ UNCHANGED <<days, sideVars>>

(***************************************************************************)
(* Cache stores, cache keys and cached reads                               *)
(*                                                                         *)
(* cache is the NodeCache instance of middleware/cache.js, redis the       *)
(* key space of the Redis client; both map a key to a value and the time   *)
(* it has left, counted in units of 300 seconds.  serviceDocs is the       *)
(* number of documents createService has added to the Service collection.  *)
(* JSON values are records whose fields hold strings.                      *)
(***************************************************************************)
MaxServices == 1

Undefined == "undefined"

EmptyStore == [k \in {} |-> 0]

\* seconds to units of 300 seconds
Ttl(seconds) == seconds \div 300

\* cache.set(key, value, ttl) / client.setEx(key, ttl, value)
StoreSet(store, key, value, ttl) ==
    [k \in (DOMAIN store) \cup {key} |->
        IF k = key THEN [value |-> value, ttl |-> ttl] ELSE store[k]]

\* cache.del(key)
StoreDel(store, keys) == [k \in (DOMAIN store) \ keys |-> store[k]]

\* 300 seconds pass: every entry loses one unit and an entry with none left is gone
StoreExpire(store) ==
    [k \in {j \in DOMAIN store : store[j].ttl > 1} |-> [store[k] EXCEPT !.ttl = @ - 1]]

\* the JSON text of a value keeps the fields that are not undefined
JsonValue(v) == [n \in {m \in DOMAIN v : v[m] # Undefined} |-> v[n]]

JsonStringify(v) == <<"json", JsonValue(v)>>

JsonParse(text) == text[2]

\* req.query is a sequence of <<name, value>> in the order of the URL
Category == <<"category", "plumbing">>

Page == <<"page", "2">>

QueryInputs == {<<Category, Page>>, <<Page, Category>>}

\* req.query[name]
QueryField(q, name) ==
    IF \E i \in 1..Len(q) : q[i][1] = name
    THEN q[CHOOSE i \in 1..Len(q) : q[i][1] = name][2]
    ELSE Undefined

RECURSIVE QueryString(_)
QueryString(q) ==
    IF q = << >> THEN ""
    ELSE q[1][1] \o "=" \o q[1][2]
         \o (IF Len(q) > 1 THEN "&" \o QueryString(Tail(q)) ELSE "")

\* req.originalUrl
OriginalUrl(path, q) == IF q = << >> THEN path ELSE path \o "?" \o QueryString(q)

\* cache.js line 13: '__cache__' + req.originalUrl || req.url
CacheMiddlewareKey(path, q) == "__cache__" \o OriginalUrl(path, q)

\* JSON.stringify of a string, or undefined
JsonString(v) == IF v = Undefined THEN Undefined ELSE "\"" \o v \o "\""

RECURSIVE JsonMembers(_)
JsonMembers(ms) ==
    IF ms = << >> THEN ""
    ELSE "\"" \o ms[1][1] \o "\":" \o ms[1][2]
         \o (IF Len(ms) > 1 THEN "," \o JsonMembers(Tail(ms)) ELSE "")

IsDefined(m) == m[2] # Undefined

\* JSON.stringify of an object given as its <<name, JSON text>> members in
\* property order; members that are undefined are left out
JsonStringifyObject(members) == "{" \o JsonMembers(SelectSeq(members, IsDefined)) \o "}"

\* JSON.stringify(req.query)
JsonStringifyQuery(q) ==
    JsonStringifyObject([i \in 1..Len(q) |-> <<q[i][1], JsonString(q[i][2])>>])

\* cacheKeyGenerators.services and cacheKeyGenerators.categories
ServicesKeyGenerator(q) == "services:" \o JsonStringifyQuery(q)

CategoriesKeyGenerator(q) == "categories:" \o JsonStringifyQuery(q)

\* parseInt(v) || fallback, for v undefined or a digit
ParseIntOr(v, fallback) ==
    IF v \in {Digit[i] : i \in 2..10} THEN v ELSE fallback

\* the object literal {page, limit, category, search, location, minPrice,
\* maxPrice, minRating} of getServices
GetServicesParams(q) ==
    << <<"page", ParseIntOr(QueryField(q, "page"), "1")>>,
       <<"limit", ParseIntOr(QueryField(q, "limit"), "10")>>,
       <<"category", JsonString(QueryField(q, "category"))>>,
       <<"search", JsonString(QueryField(q, "search"))>>,
       <<"location", JsonString(QueryField(q, "location"))>>,
       <<"minPrice", JsonString(QueryField(q, "minPrice"))>>,
       <<"maxPrice", JsonString(QueryField(q, "maxPrice"))>>,
       <<"minRating", JsonString(QueryField(q, "minRating"))>> >>

\* redisService.cacheServices / getCachedServices key of getServices
GetServicesKey(q) == "services:" \o JsonStringifyObject(GetServicesParams(q))

\* the key of searchServices
SearchServicesKey(q) ==
    "search:" \o JsonStringifyObject(
        << <<"search", JsonString(QueryField(q, "search"))>>,
           <<"category", JsonString(QueryField(q, "category"))>>,
           <<"minPrice", JsonString(QueryField(q, "minPrice"))>>,
           <<"maxPrice", JsonString(QueryField(q, "maxPrice"))>>,
           <<"minRating", JsonString(QueryField(q, "minRating"))>>,
           <<"location", JsonString(QueryField(q, "location"))>>,
           <<"providerId", JsonString(QueryField(q, "providerId"))>> >>)

\* 300 seconds pass
Tick ==
    /\ (DOMAIN cache) \cup (DOMAIN redis) # {}
    /\ cache' = StoreExpire(cache)
    /\ redis' = StoreExpire(redis)
    /\ UNCHANGED <<bookings, days, req, wallets, transactions, reviews, serviceDocs,
                 conversations, messages, redisClient>>

\* GET /api/services?<q>: cacheMiddleware(900), then getServices
GetServicesReceive(r, q) ==
    /\ Free(r)
    /\ req' = [req EXCEPT ![r] = [pc |-> "cm_get", op |-> "getServices", query |-> q,
                                  key |-> CacheMiddlewareKey("/api/services", q),
                                  next |-> "gs_get", services |-> Undefined]]
    /\ UNCHANGED <<bookings, days, sideVars>>

\* cacheMiddleware, cache.js lines 9-31: a hit answers with the cached data, a
\* miss replaces res.json and calls next()
CacheMiddlewareGet(r) ==
    /\ req[r].pc = "cm_get"
    /\ UNCHANGED <<bookings, days, sideVars>>
    /\ IF req[r].key \in DOMAIN cache
       THEN RespondData(r, req[r].op, JsonValue(cache[req[r].key].value))
       ELSE req' = [req EXCEPT ![r].pc = req[r].next]

\* what getServices answers when getCachedServices finds an entry, lines 68-75
GetServicesHit(cachedData) ==
    [success |-> "true", data |-> cachedData.services,
     pagination |-> cachedData.pagination, cache |-> "true"]

\* getServices lines 49-76; the answer goes through the res.json installed by
\* cacheMiddleware.  Without a client getCachedServices catches the TypeError
\* and returns null.
GetServicesCached(r) ==
    /\ req[r].pc = "gs_get"
    /\ UNCHANGED <<bookings, days, wallets, transactions, reviews, redis, serviceDocs,
                 conversations, messages, redisClient>>
    /\ LET redisKey == GetServicesKey(req[r].query)
       IN IF redisClient = "ready" /\ redisKey \in DOMAIN redis
          THEN LET body == GetServicesHit(JsonParse(redis[redisKey].value))
               IN /\ cache' = StoreSet(cache, req[r].key, body, Ttl(900))
                  /\ RespondData(r, "getServices", JsonValue(body))
          ELSE /\ req' = [req EXCEPT ![r].pc = "gs_find"]
               /\ UNCHANGED cache

\* the page of services the query selects, as a function of the filter and of
\* the collection
Listing(q, docs) == QueryField(q, "category") \o ":" \o NumberToString(docs)

\* lines 79-128: Service.find and countDocuments
GetServicesFind(r) ==
    /\ req[r].pc = "gs_find"
    /\ req' = [req EXCEPT ![r].pc = "gs_cache",
                          ![r].services = Listing(req[r].query, serviceDocs)]
    /\ UNCHANGED <<bookings, days, sideVars>>

\* lines 130-156: cacheServices(params, {services, pagination}, 300), which
\* catches its own errors, then
\* res.json(responseData) through cacheMiddleware's res.json
GetServicesCache(r) ==
    /\ req[r].pc = "gs_cache"
    /\ UNCHANGED <<bookings, days, wallets, transactions, reviews, serviceDocs,
                 conversations, messages, redisClient>>
    /\ LET page == ParseIntOr(QueryField(req[r].query, "page"), "1")
           responseData == [success |-> "true", data |-> req[r].services,
                            pagination |-> page]
           servicesData == [services |-> req[r].services, pagination |-> page]
       IN /\ redis' = IF redisClient = "ready"
                      THEN StoreSet(redis, GetServicesKey(req[r].query),
                                    JsonStringify(servicesData), Ttl(300))
                      ELSE redis
          /\ cache' = StoreSet(cache, req[r].key, responseData, Ttl(900))
          /\ RespondData(r, "getServices", JsonValue(responseData))

\* POST /api/services
CreateServiceReceive(r, user) ==
    /\ Free(r)
    /\ serviceDocs < MaxServices
    /\ req' = [req EXCEPT ![r] = [pc |-> "cs_user", user |-> user]]
    /\ UNCHANGED <<bookings, days, sideVars>>

\* user.role of the three users
UserRole == [p1 |-> "provider", c1 |-> "customer", c2 |-> "customer"]

\* createService lines 12-15
CreateServiceUser(r) ==
    /\ req[r].pc = "cs_user"
    /\ UNCHANGED <<bookings, days, sideVars>>
    /\ IF UserRole[req[r].user] # "provider"
       THEN Respond(r, "createService", 403, "Only service providers can create services")
       ELSE req' = [req EXCEPT ![r].pc = "cs_save"]

\* lines 17-30: service.save()
CreateServiceSave(r) ==
    /\ req[r].pc = "cs_save"
    /\ serviceDocs' = serviceDocs + 1
    /\ req' = [req EXCEPT ![r].pc = "cs_clear"]
    /\ UNCHANGED <<bookings, days, wallets, transactions, reviews, cache, redis,
                 conversations, messages, redisClient>>

\* lines 32-39: clearCache('/services'), clearCache('/services/search'), 201
CreateServiceClear(r) ==
    /\ req[r].pc = "cs_clear"
    /\ cache' = StoreDel(cache, {"__cache__" \o "/services",
                                 "__cache__" \o "/services/search"})
    /\ Respond(r, "createService", 201, "")
    /\ UNCHANGED <<bookings, days, wallets, transactions, reviews, redis, serviceDocs,
                 conversations, messages, redisClient>>

\* the bodies and status codes of the handler behind cacheResponse
HandlerAnswers ==
    {[code |-> 200, data |-> [success |-> "true", data |-> "a"]],
     [code |-> 200, data |-> [success |-> "true", data |-> "b"]],
     [code |-> 404, data |-> [error |-> "Not found"]]}

\* cacheResponse(cacheKeyGenerators.services) lines 64-72; user is "" for a
\* request without req.user
CacheResponseReceive(r, user, q, answer) ==
    /\ Free(r)
    /\ LET cacheKey == ServicesKeyGenerator(q)
           userCacheKey == IF user # "" THEN cacheKey \o ":user:" \o user ELSE cacheKey
       IN req' = [req EXCEPT ![r] = [pc |-> "crs_get", op |-> "cacheResponse",
                                     user |-> user, query |-> q, key |-> userCacheKey,
                                     answer |-> answer, override |-> FALSE]]
    /\ UNCHANGED <<bookings, days, sideVars>>

\* lines 75-80: a hit answers JSON.parse of the stored text; a miss (lines
\* 82-103) replaces res.json and calls next().  Without a client getClient()
\* throws and the catch block (lines 104-107) calls next() with res.json as
\* it was.
CacheResponseGet(r) ==
    /\ req[r].pc = "crs_get"
    /\ UNCHANGED <<bookings, days, sideVars>>
    /\ IF redisClient # "ready"
       THEN req' = [req EXCEPT ![r].pc = "crs_json"]
       ELSE IF req[r].key \in DOMAIN redis
       THEN RespondData(r, "cacheResponse", JsonValue(JsonParse(redis[req[r].key].value)))
       ELSE req' = [req EXCEPT ![r].pc = "crs_json", ![r].override = TRUE]

\* {...data, _cached: true, _cachedAt, _ttl}
CacheData(data, ttl) ==
    [n \in (DOMAIN data) \cup {"_cached", "_cachedAt", "_ttl"} |->
        CASE n = "_cached" -> "true"
          [] n = "_cachedAt" -> "now"
          [] n = "_ttl" -> ttl
          [] OTHER -> data[n]]

\* lines 87-101: the handler calls res.json(data), the replaced one after a miss
CacheResponseJson(r) ==
    /\ req[r].pc = "crs_json"
    /\ UNCHANGED <<bookings, days, wallets, transactions, reviews, cache, serviceDocs,
                 conversations, messages, redisClient>>
    /\ LET data == req[r].answer.data
       IN /\ redis' = IF req[r].override /\ req[r].answer.code < 400
                      THEN StoreSet(redis, req[r].key,
                                    JsonStringify(CacheData(data, "300")), Ttl(300))
                      ELSE redis
          /\ req' = [req EXCEPT ![r] = [pc |-> "done", op |-> "cacheResponse",
                                        code |-> req[r].answer.code, error |-> "",
                                        data |-> JsonValue(data)]]

\* res.status(code).json(body)
RespondBody(r, op, code, body) ==
    req' = [req EXCEPT ![r] = [pc |-> "done", op |-> op, code |-> code,
                               error |-> IF "error" \in DOMAIN body THEN body.error ELSE "",
                               data |-> JsonValue(body)]]

\* GET /api/services/search?<q>: cacheMiddleware(300), then searchServices
SearchServicesReceive(r, q) ==
    /\ Free(r)
    /\ req' = [req EXCEPT ![r] = [pc |-> "cm_get", op |-> "searchServices", query |-> q,
                                  key |-> CacheMiddlewareKey("/api/services/search", q),
                                  next |-> "ss_get", services |-> Undefined]]
    /\ UNCHANGED <<bookings, days, sideVars>>

\* searchServices lines 263-287 and 348-351.  redisService.getClient() throws
\* without a client, outside any try block but the handler's own, whose catch
\* answers 500; every answer goes through the res.json installed by
\* cacheMiddleware(300).
SearchServicesCached(r) ==
    /\ req[r].pc = "ss_get"
    /\ UNCHANGED <<bookings, days, wallets, transactions, reviews, redis, serviceDocs,
                   conversations, messages, redisClient>>
    /\ LET cacheKey == SearchServicesKey(req[r].query)
       IN IF redisClient # "ready"
          THEN LET body == [error |-> "Server error"]
               IN /\ cache' = StoreSet(cache, req[r].key, body, Ttl(300))
                  /\ RespondBody(r, "searchServices", 500, body)
          ELSE IF cacheKey \in DOMAIN redis
          THEN LET body == [success |-> "true", data |-> JsonParse(redis[cacheKey].value).data,
                            cache |-> "true"]
               IN /\ cache' = StoreSet(cache, req[r].key, body, Ttl(300))
                  /\ RespondBody(r, "searchServices", 200, body)
          ELSE /\ req' = [req EXCEPT ![r].pc = "ss_find"]
               /\ UNCHANGED cache

\* lines 289-339: Service.find
SearchServicesFind(r) ==
    /\ req[r].pc = "ss_find"
    /\ req' = [req EXCEPT ![r].pc = "ss_cache",
                          ![r].services = Listing(req[r].query, serviceDocs)]
    /\ UNCHANGED <<bookings, days, sideVars>>

\* lines 342-347: setEx(cacheKey, 300, JSON.stringify(services)), then the answer;
\* the array of services is held as the data field of the stored value
SearchServicesCache(r) ==
    /\ req[r].pc = "ss_cache"
    /\ UNCHANGED <<bookings, days, wallets, transactions, reviews, serviceDocs,
                   conversations, messages, redisClient>>
    /\ IF redisClient # "ready"
       THEN LET body == [error |-> "Server error"]
            IN /\ cache' = StoreSet(cache, req[r].key, body, Ttl(300))
               /\ RespondBody(r, "searchServices", 500, body)
               /\ UNCHANGED redis
       ELSE LET body == [success |-> "true", data |-> req[r].services]
            IN /\ redis' = StoreSet(redis, SearchServicesKey(req[r].query),
                                    JsonStringify([data |-> req[r].services]), Ttl(300))
               /\ cache' = StoreSet(cache, req[r].key, body, Ttl(300))
               /\ RespondBody(r, "searchServices", 200, body)

\* GET /api/services/:id: cacheMiddleware(1800), then getServiceById
GetServiceByIdReceive(r, id) ==
    /\ Free(r)
    /\ req' = [req EXCEPT ![r] = [pc |-> "cm_get", op |-> "getServiceById", id |-> id,
                                  key |-> CacheMiddlewareKey("/api/services/" \o id, << >>),
                                  next |-> "gsi_find"]]
    /\ UNCHANGED <<bookings, days, sideVars>>

\* getServiceById lines 166-183; both answers go through the res.json
\* installed by cacheMiddleware(1800), which stores the body whatever the
\* status
GetServiceByIdFind(r) ==
    /\ req[r].pc = "gsi_find"
    /\ UNCHANGED <<bookings, days, wallets, transactions, reviews, redis, serviceDocs,
                   conversations, messages, redisClient>>
    /\ IF ServiceFindById(req[r].id) = {}
       THEN LET body == [error |-> "Service not found"]
            IN /\ cache' = StoreSet(cache, req[r].key, body, Ttl(1800))
               /\ RespondBody(r, "getServiceById", 404, body)
       ELSE LET body == [success |-> "true", service |-> req[r].id]
            IN /\ cache' = StoreSet(cache, req[r].key, body, Ttl(1800))
               /\ RespondBody(r, "getServiceById", 200, body)

(***************************************************************************)
(* Conversations and messages                                              *)
(*                                                                         *)
(* conversations and messages are the two collections, a document's _id    *)
(* being its position.  Time is counted in messages: createdAt of message  *)
(* m is m, and new Date() is the number of messages saved so far, so that  *)
(* createdAt > lastReadAt holds exactly for the messages saved after the   *)
(* read.                                                                   *)
(***************************************************************************)
MaxMessages == 2

NoMessage == 0

ChatUsers == {"c1", "p1"}

ConversationIdInputs == {1}

PageInputs == {"1", "2"}

\* new Date() in the messages controller
ChatNow == Len(messages)

\* Conversation.findOne({_id, participants: user})
FindConversation(id, user) ==
    {i \in 1..Len(conversations) :
        /\ i = id
        /\ \E k \in 1..Len(conversations[i].participants) :
              conversations[i].participants[k] = user}

\* Message.findOne({conversation}).sort({createdAt: -1}); NoMessage when there is none
LastMessage(id) ==
    IF \E m \in 1..Len(messages) : messages[m].conversation = id
    THEN CHOOSE m \in 1..Len(messages) :
            /\ messages[m].conversation = id
            /\ \A n \in 1..Len(messages) : messages[n].conversation = id => n <= m
    ELSE NoMessage

\* participantReadStatus.findIndex(status => status.user == user), 0 for -1
ReadStatusIndex(statuses, user) ==
    IF \E i \in 1..Len(statuses) : statuses[i].user = user
    THEN CHOOSE i \in 1..Len(statuses) :
            /\ statuses[i].user = user
            /\ \A j \in 1..Len(statuses) : statuses[j].user = user => i <= j
    ELSE 0

\* an update with filter {_id, 'participantReadStatus.user': user} and $set on
\* 'participantReadStatus.$.<field>': the first matching element is changed,
\* a document without one is left alone
PositionalSet(convs, id, user, fields) ==
    LET i == ReadStatusIndex(convs[id].participantReadStatus, user)
    IN IF i = 0 THEN convs
       ELSE [convs EXCEPT ![id].participantReadStatus[i] =
                [f \in DOMAIN @ |-> IF f \in DOMAIN fields THEN fields[f] ELSE @[f]]]

\* Message.countDocuments of getConversations, lines 62-75: the messages of
\* other senders, after lastReadAt when the user has a read status with one
CountUnread(id, user, statuses) ==
    LET i == ReadStatusIndex(statuses, user)
    IN Cardinality({m \in 1..Len(messages) :
                       /\ messages[m].conversation = id
                       /\ messages[m].sender # user
                       /\ i # 0 => m > statuses[i].lastReadAt})

\* POST /api/messages/conversations
CreateConversationReceive(r, user, recipientId) ==
    /\ Free(r)
    /\ req' = [req EXCEPT ![r] = [pc |-> "cc_user", user |-> user,
                                  recipientId |-> recipientId]]
    /\ UNCHANGED <<bookings, days, sideVars>>

\* createConversation lines 419-422
CreateConversationUser(r) ==
    /\ req[r].pc = "cc_user"
    /\ UNCHANGED <<bookings, days, sideVars>>
    /\ IF req[r].recipientId \notin Users
       THEN Respond(r, "createConversation", 404, "Recipient not found")
       ELSE req' = [req EXCEPT ![r].pc = "cc_find"]

\* lines 425-436: participants $all [user, recipient], service null, booking null
CreateConversationFind(r) ==
    /\ req[r].pc = "cc_find"
    /\ UNCHANGED <<bookings, days, sideVars>>
    /\ IF \E i \in 1..Len(conversations) :
             {req[r].user, req[r].recipientId} \subseteq
                 {conversations[i].participants[k] :
                     k \in 1..Len(conversations[i].participants)}
       THEN Respond(r, "createConversation", 200, "")
       ELSE req' = [req EXCEPT ![r].pc = "cc_save"]

\* lines 439-455
CreateConversationSave(r) ==
    /\ req[r].pc = "cc_save"
    /\ conversations' = Append(conversations,
                               [participants |-> <<req[r].user, req[r].recipientId>>,
                                participantReadStatus |-> << >>, v |-> 0])
    /\ Respond(r, "createConversation", 201, "")
    /\ UNCHANGED <<bookings, days, wallets, transactions, reviews, cache, redis,
                   serviceDocs, messages, redisClient>>

\* POST /api/messages
SendMessageReceive(r, user, conversationId) ==
    /\ Free(r)
    /\ Len(messages) < MaxMessages
    /\ req' = [req EXCEPT ![r] = [pc |-> "sm_find", user |-> user, id |-> conversationId]]
    /\ UNCHANGED <<bookings, days, sideVars>>

\* sendMessage lines 345-352
SendMessageFind(r) ==
    /\ req[r].pc = "sm_find"
    /\ UNCHANGED <<bookings, days, sideVars>>
    /\ IF FindConversation(req[r].id, req[r].user) = {}
       THEN Respond(r, "sendMessage", 404, "Conversation not found or access denied")
       ELSE req' = [req EXCEPT ![r].pc = "sm_save"]

\* lines 354-361: message.save()
SendMessageSave(r) ==
    /\ req[r].pc = "sm_save"
    /\ messages' = Append(messages, [conversation |-> req[r].id, sender |-> req[r].user])
    /\ req' = [req EXCEPT ![r].pc = "sm_update"]
    /\ UNCHANGED <<bookings, days, wallets, transactions, reviews, cache, redis,
                   serviceDocs, conversations, redisClient>>

\* lines 364-406: lastMessage and lastMessageAt of the conversation, which no
\* modelled read depends on, the socket events and the 201
SendMessageUpdate(r) ==
    /\ req[r].pc = "sm_update"
    /\ Respond(r, "sendMessage", 201, "")
    /\ UNCHANGED <<bookings, days, sideVars>>

\* PUT /api/messages/conversations/:conversationId/read
MarkConversationAsReadReceive(r, user, conversationId) ==
    /\ Free(r)
    /\ req' = [req EXCEPT ![r] = [pc |-> "mr_find", user |-> user, id |-> conversationId]]
    /\ UNCHANGED <<bookings, days, sideVars>>

\* markConversationAsRead lines 573-580: the document is loaded
MarkConversationAsReadFind(r) ==
    /\ req[r].pc = "mr_find"
    /\ UNCHANGED <<bookings, days, sideVars>>
    /\ IF FindConversation(req[r].id, req[r].user) = {}
       THEN Respond(r, "markConversationAsRead", 404,
                    "Conversation not found or access denied")
       ELSE req' = [req EXCEPT ![r] = [pc |-> "mr_last", user |-> req[r].user,
                                       id |-> req[r].id,
                                       doc |-> conversations[req[r].id]]]

\* lines 583-602: the newest message is looked up and the loaded document is
\* changed in memory, at the user's index or by a push
MarkConversationAsReadLast(r) ==
    /\ req[r].pc = "mr_last"
    /\ UNCHANGED <<bookings, days, sideVars>>
    /\ IF LastMessage(req[r].id) = NoMessage
       THEN Respond(r, "markConversationAsRead", 200, "")
       ELSE req' = [req EXCEPT ![r] =
                       [pc |-> "mr_save", user |-> req[r].user, id |-> req[r].id,
                        doc |-> req[r].doc,
                        index |-> ReadStatusIndex(req[r].doc.participantReadStatus,
                                                  req[r].user),
                        lastReadMessage |-> LastMessage(req[r].id),
                        lastReadAt |-> ChatNow]]

\* line 604, conversation.save().  A change at an array index is sent as
\* $set 'participantReadStatus.<index>.<field>' with the loaded __v in the
\* filter, and fails with a VersionError when __v has changed; a push is sent
\* as $push with $inc __v and no __v in the filter.
MarkConversationAsReadSave(r) ==
    /\ req[r].pc = "mr_save"
    /\ UNCHANGED <<bookings, days, wallets, transactions, reviews, cache, redis,
                   serviceDocs, messages, redisClient>>
    /\ LET id == req[r].id
           i == req[r].index
       IN IF i # 0
          THEN IF conversations[id].v # req[r].doc.v
               THEN /\ Respond(r, "markConversationAsRead", 500, "Server error")
                    /\ UNCHANGED conversations
               ELSE /\ conversations' =
                          [conversations EXCEPT ![id].participantReadStatus[i] =
                              [@ EXCEPT !.lastReadMessage = req[r].lastReadMessage,
                                        !.lastReadAt = req[r].lastReadAt]]
                    /\ Respond(r, "markConversationAsRead", 200, "")
          ELSE /\ conversations' =
                     [conversations EXCEPT
                         ![id].participantReadStatus =
                             Append(@, [user |-> req[r].user,
                                        lastReadMessage |-> req[r].lastReadMessage,
                                        lastReadAt |-> req[r].lastReadAt,
                                        unreadCount |-> 0]),
                         ![id].v = @ + 1]
               /\ Respond(r, "markConversationAsRead", 200, "")

\* GET /api/messages/conversations/:conversationId
GetMessagesReceive(r, user, conversationId) ==
    /\ Free(r)
    /\ req' = [req EXCEPT ![r] = [pc |-> "gm_find", user |-> user, id |-> conversationId]]
    /\ UNCHANGED <<bookings, days, sideVars>>

\* getMessages lines 127-134
GetMessagesFind(r) ==
    /\ req[r].pc = "gm_find"
    /\ UNCHANGED <<bookings, days, sideVars>>
    /\ IF FindConversation(req[r].id, req[r].user) = {}
       THEN Respond(r, "getMessages", 404, "Conversation not found or access denied")
       ELSE req' = [req EXCEPT ![r].pc = "gm_last"]

\* lines 137-158 and 194-205: the page of messages and the newest message
GetMessagesLast(r) ==
    /\ req[r].pc = "gm_last"
    /\ UNCHANGED <<bookings, days, sideVars>>
    /\ IF LastMessage(req[r].id) = NoMessage
       THEN Respond(r, "getMessages", 200, "")
       ELSE req' = [req EXCEPT ![r] = [pc |-> "gm_set", user |-> req[r].user,
                                       id |-> req[r].id,
                                       lastReadMessage |-> LastMessage(req[r].id)]]

\* lines 160-172
GetMessagesSet(r) ==
    /\ req[r].pc = "gm_set"
    /\ conversations' = PositionalSet(conversations, req[r].id, req[r].user,
                                      [lastReadMessage |-> req[r].lastReadMessage,
                                       lastReadAt |-> ChatNow, unreadCount |-> 0])
    /\ req' = [req EXCEPT ![r].pc = "gm_push"]
    /\ UNCHANGED <<bookings, days, wallets, transactions, reviews, cache, redis,
                   serviceDocs, messages, redisClient>>

\* lines 175-205: the push under 'participantReadStatus.user': {$ne: user},
\* then the count and the answer
GetMessagesPush(r) ==
    /\ req[r].pc = "gm_push"
    /\ conversations' =
          IF ReadStatusIndex(conversations[req[r].id].participantReadStatus,
                             req[r].user) = 0
          THEN [conversations EXCEPT ![req[r].id].participantReadStatus =
                   Append(@, [user |-> req[r].user,
                              lastReadMessage |-> req[r].lastReadMessage,
                              lastReadAt |-> ChatNow, unreadCount |-> 0])]
          ELSE conversations
    /\ Respond(r, "getMessages", 200, "")
    /\ UNCHANGED <<bookings, days, wallets, transactions, reviews, cache, redis,
                   serviceDocs, messages, redisClient>>

\* GET /api/messages/conversations/:conversationId/latest
GetLatestMessagesReceive(r, user, conversationId) ==
    /\ Free(r)
    /\ req' = [req EXCEPT ![r] = [pc |-> "gl_find", user |-> user, id |-> conversationId]]
    /\ UNCHANGED <<bookings, days, sideVars>>

\* getLatestMessages lines 271-278
GetLatestMessagesFind(r) ==
    /\ req[r].pc = "gl_find"
    /\ UNCHANGED <<bookings, days, sideVars>>
    /\ IF FindConversation(req[r].id, req[r].user) = {}
       THEN Respond(r, "getLatestMessages", 404, "Conversation not found or access denied")
       ELSE req' = [req EXCEPT ![r].pc = "gl_messages"]

\* lines 281-294: the latest messages, messages[0] being the newest
GetLatestMessagesMessages(r) ==
    /\ req[r].pc = "gl_messages"
    /\ UNCHANGED <<bookings, days, sideVars>>
    /\ IF LastMessage(req[r].id) = NoMessage
       THEN Respond(r, "getLatestMessages", 200, "")
       ELSE req' = [req EXCEPT ![r] = [pc |-> "gl_set", user |-> req[r].user,
                                       id |-> req[r].id,
                                       lastReadMessage |-> LastMessage(req[r].id)]]

\* lines 295-310
GetLatestMessagesSet(r) ==
    /\ req[r].pc = "gl_set"
    /\ conversations' = PositionalSet(conversations, req[r].id, req[r].user,
                                      [lastReadMessage |-> req[r].lastReadMessage,
                                       lastReadAt |-> ChatNow, unreadCount |-> 0])
    /\ Respond(r, "getLatestMessages", 200, "")
    /\ UNCHANGED <<bookings, days, wallets, transactions, reviews, cache, redis,
                   serviceDocs, messages, redisClient>>

\* redisService.cacheConversations / getCachedConversations: `conversations:${userId}`
ConversationsKey(userId) == "conversations:" \o userId

\* Conversation.find({participants: user}).limit(10).skip((page - 1) * 10):
\* the ids on the page, which is empty after the first page while the user has
\* at most ten conversations
ConversationsPage(user, page) ==
    IF page = "1"
    THEN SelectSeq([i \in 1..Len(conversations) |-> i],
                   LAMBDA i : FindConversation(i, user) # {})
    ELSE << >>

\* GET /api/messages/conversations?page=<page>
GetConversationsReceive(r, user, page) ==
    /\ Free(r)
    /\ req' = [req EXCEPT ![r] = [pc |-> "gc_get", user |-> user,
                                  page |-> ParseIntOr(page, "1"),
                                  key |-> ConversationsKey(user), list |-> << >>]]
    /\ UNCHANGED <<bookings, days, sideVars>>

\* getConversations lines 17-27; without a client getCachedConversations
\* catches the TypeError and returns null
GetConversationsCached(r) ==
    /\ req[r].pc = "gc_get"
    /\ UNCHANGED <<bookings, days, sideVars>>
    /\ IF redisClient = "ready" /\ req[r].key \in DOMAIN redis
       THEN RespondData(r, "getConversations",
                        [success |-> "true", data |-> JsonParse(redis[req[r].key].value),
                         cache |-> "true"])
       ELSE req' = [req EXCEPT ![r].pc = "gc_find"]

\* lines 30-42: the lean documents of the page
GetConversationsFind(r) ==
    /\ req[r].pc = "gc_find"
    /\ UNCHANGED <<bookings, days, sideVars>>
    /\ LET ids == ConversationsPage(req[r].user, req[r].page)
       IN req' = [req EXCEPT ![r].pc = "gc_count",
                             ![r].list = [i \in 1..Len(ids) |->
                                 [conversation |-> ids[i],
                                  participantReadStatus |->
                                      conversations[ids[i]].participantReadStatus]]]

\* lines 48-75: the unread count of each conversation of the page
GetConversationsCount(r) ==
    /\ req[r].pc = "gc_count"
    /\ UNCHANGED <<bookings, days, sideVars>>
    /\ req' = [req EXCEPT ![r].pc = "gc_update",
                          ![r].list = [i \in 1..Len(req[r].list) |->
                              [conversation |-> req[r].list[i].conversation,
                               unreadCount |->
                                   CountUnread(req[r].list[i].conversation, req[r].user,
                                               req[r].list[i].participantReadStatus)]]]

RECURSIVE StoreUnreadCounts(_, _, _)
StoreUnreadCounts(convs, user, list) ==
    IF list = << >> THEN convs
    ELSE StoreUnreadCounts(PositionalSet(convs, list[1].conversation, user,
                                         [unreadCount |-> list[1].unreadCount]),
                           user, Tail(list))

\* lines 78-81: Conversation.updateOne of each conversation of the page
GetConversationsUpdate(r) ==
    /\ req[r].pc = "gc_update"
    /\ conversations' = StoreUnreadCounts(conversations, req[r].user, req[r].list)
    /\ req' = [req EXCEPT ![r].pc = "gc_cache"]
    /\ UNCHANGED <<bookings, days, wallets, transactions, reviews, cache, redis,
                   serviceDocs, messages, redisClient>>

\* lines 93-112: cacheConversations(userId, conversationsWithDetails, 300),
\* which catches its own errors, then the answer
GetConversationsCache(r) ==
    /\ req[r].pc = "gc_cache"
    /\ redis' = IF redisClient = "ready"
                THEN StoreSet(redis, req[r].key, <<"json", req[r].list>>, Ttl(300))
                ELSE redis
    /\ RespondData(r, "getConversations",
                   [success |-> "true", data |-> req[r].list, pagination |-> req[r].page])
    /\ UNCHANGED <<bookings, days, wallets, transactions, reviews, cache,
                   serviceDocs, conversations, messages, redisClient>>

(***************************************************************************)
(* Specifications                                                          *)
(***************************************************************************)
Init ==
    /\ bookings = << >>
    /\ days = [k \in DayKeys |-> NoDay]
    /\ req = [r \in Req |-> Idle]
    /\ wallets = [u \in Users |-> [balance |-> OpeningBalance[u], transactions |-> << >>]]
    /\ transactions = << >>
    /\ reviews = << >>
    /\ cache = EmptyStore
    /\ redis = EmptyStore
    /\ serviceDocs = 0
    /\ conversations = << >>
    /\ messages = << >>
    /\ redisClient = "ready"

\* the state after a start in which redisService.init() failed: the server
\* goes on with redisService.client null
InitNoRedis ==
    /\ bookings = << >>
    /\ days = [k \in DayKeys |-> NoDay]
    /\ req = [r \in Req |-> Idle]
    /\ wallets = [u \in Users |-> [balance |-> OpeningBalance[u], transactions |-> << >>]]
    /\ transactions = << >>
    /\ reviews = << >>
    /\ cache = EmptyStore
    /\ redis = EmptyStore
    /\ serviceDocs = 0
    /\ conversations = << >>
    /\ messages = << >>
    /\ redisClient = "null"

CreateBookingStep(r) ==
    \/ CreateBookingFind(r)
    \/ CreateBookingSave(r)

UpdateBookingStatusStep(r) ==
    \/ UpdateBookingStatusLoad(r)
    \/ UpdateBookingStatusFind(r)
    \/ UpdateBookingStatusReschedule(r)
    \/ UpdateBookingStatusSave(r)

\* SpecHttp: the booking handlers, one HTTP request at a time; every booking is
\* made by customer c1 or attempted by provider p1
NextHttp ==
    \/ \E user \in {"p1", "c1"}, serviceId \in ServiceIdInputs,
          date \in BookingDateInputs, time \in BookingTimeInputs :
          CreateBookingReceive(1, user, serviceId, date, time, 3000)
    \/ CreateBookingStep(1)
    \/ \E user \in Users, id \in BookingIdInputs, status \in HttpStatusInputs,
          in \in RescheduleInputs :
          UpdateBookingStatusReceive(1, user, id, status, in[1], in[2])
    \/ UpdateBookingStatusStep(1)

SpecHttp == Init /\ [][NextHttp]_vars

\* Spec: the same, with socket events at any moment
Next ==
    \/ NextHttp
    \/ \E id \in BookingIdInputs, status \in SocketStatusInputs :
          BookingStatusUpdate(id, status)

Spec == Init /\ [][Next]_vars

\* SpecCreateRace: two createBooking requests of customers c1 and c2 in flight
\* together, for one date, with socket events at any moment
NextCreateRace ==
    \/ \E r \in Req, user \in {"c1", "c2"},
          date \in {"2024-06-10", "2024-06-10T00:00:00.000Z"} :
          CreateBookingReceive(r, user, "s1", date, "10:00", 3000)
    \/ \E r \in Req : CreateBookingStep(r)
    \/ \E id \in BookingIdInputs, status \in SocketStatusInputs :
          BookingStatusUpdate(id, status)

SpecCreateRace == Init /\ [][NextCreateRace]_vars

SlotListInputs ==
    { << >>,
      <<Slot("09:00", "10:00", FALSE, NullId)>>,
      <<Slot("09:00", "10:00", FALSE, NullId), Slot("09:00", "09:30", FALSE, NullId)>>,
      <<Slot("09:00", "10:00", TRUE, NullId)>> }

SlotsBodyInputs ==
    {[given |-> FALSE, value |-> << >>]} \cup {[given |-> TRUE, value |-> l] : l \in SlotListInputs}

IsAvailableBodyInputs ==
    {[given |-> FALSE, value |-> FALSE], [given |-> TRUE, value |-> FALSE],
     [given |-> TRUE, value |-> TRUE]}

GetAvailabilityStep(r) ==
    \/ GetAvailabilityFind(r)
    \/ GetAvailabilityCreate(r)

GetAvailabilityRangeStep(r) ==
    \/ GetAvailabilityRangeFind(r)
    \/ GetAvailabilityRangeCreate(r)

UpdateAvailabilityStep(r) ==
    \/ UpdateAvailabilityFind(r)
    \/ UpdateAvailabilityCreate(r)
    \/ UpdateAvailabilitySave(r)

BookSlotStep(r) ==
    \/ BookSlotLoad(r)
    \/ BookSlotSave(r)

UnbookSlotStep(r) ==
    \/ UnbookSlotLoad(r)
    \/ UnbookSlotSave(r)

\* SpecAvail: the five availability handlers, one HTTP request at a time
NextAvail ==
    \/ \E providerId \in {"", "p1"}, date \in AvailDateInputs :
          GetAvailabilityReceive(1, providerId, date)
    \/ GetAvailabilityStep(1)
    \/ \E providerId \in {"", "p1"}, startDate \in AvailDateInputs,
          endDate \in RangeEndInputs :
          GetAvailabilityRangeReceive(1, providerId, startDate, endDate)
    \/ GetAvailabilityRangeStep(1)
    \/ \E date \in AvailDateInputs, slots \in SlotsBodyInputs,
          isAvailable \in IsAvailableBodyInputs :
          UpdateAvailabilityReceive(1, "p1", date, slots, isAvailable)
    \/ UpdateAvailabilityStep(1)
    \/ \E user \in {"p1", "c1"}, date \in AvailDateInputs, startTime \in StartTimeInputs,
          bookingId \in {NullId} \cup BookingIdInputs :
          BookSlotReceive(1, user, date, startTime, bookingId)
    \/ BookSlotStep(1)
    \/ \E user \in {"p1", "c1"}, date \in AvailDateInputs, startTime \in StartTimeInputs,
          bookingId \in {NullId} \cup BookingIdInputs :
          UnbookSlotReceive(1, user, date, startTime, bookingId)
    \/ UnbookSlotStep(1)

SpecAvail == Init /\ [][NextAvail]_vars

\* SpecSlotRace: bookSlot, unbookSlot, getAvailability and updateAvailability
\* requests of provider p1 for one date, two in flight together
NextSlotRace ==
    \/ \E r \in Req : GetAvailabilityReceive(r, "p1", "2024-06-10")
    \/ \E r \in Req : GetAvailabilityStep(r)
    \/ \E r \in Req, slots \in SlotsBodyInputs :
          UpdateAvailabilityReceive(r, "p1", "2024-06-10", slots,
                                    [given |-> FALSE, value |-> FALSE])
    \/ \E r \in Req : UpdateAvailabilityStep(r)
    \/ \E r \in Req, bookingId \in BookingIdInputs :
          BookSlotReceive(r, "p1", "2024-06-10", "09:00", bookingId)
    \/ \E r \in Req : BookSlotStep(r)
    \/ \E r \in Req, bookingId \in BookingIdInputs :
          UnbookSlotReceive(r, "p1", "2024-06-10", "09:00", bookingId)
    \/ \E r \in Req : UnbookSlotStep(r)

SpecSlotRace == Init /\ [][NextSlotRace]_vars

\* SpecDayRace: getAvailability, getAvailabilityRange and updateAvailability
\* requests for provider p1, two in flight together
NextDayRace ==
    \/ \E r \in Req, date \in {"2024-06-10", "2024-06-11"} :
          GetAvailabilityReceive(r, "p1", date)
    \/ \E r \in Req : GetAvailabilityStep(r)
    \/ \E r \in Req, endDate \in RangeEndInputs :
          GetAvailabilityRangeReceive(r, "p1", "2024-06-10", endDate)
    \/ \E r \in Req : GetAvailabilityRangeStep(r)
    \/ \E r \in Req, slots \in {[given |-> FALSE, value |-> << >>],
                       [given |-> TRUE, value |-> <<Slot("09:00", "10:00", FALSE, NullId)>>]} :
          UpdateAvailabilityReceive(r, "p1", "2024-06-10", slots,
                                    [given |-> FALSE, value |-> FALSE])
    \/ \E r \in Req : UpdateAvailabilityStep(r)

SpecDayRace == Init /\ [][NextDayRace]_vars

\* SpecLedger: bookings and slots together, one HTTP request at a time: customer
\* c1 books, c1 and p1 change statuses, p1 edits the day and books and releases
\* its 09:00 slot
NextLedger ==
    \/ CreateBookingReceive(1, "c1", "s1", "2024-06-10", "10:00", 3000)
    \/ CreateBookingStep(1)
    \/ \E user \in {"p1", "c1"}, id \in BookingIdInputs,
          status \in {"confirmed", "cancelled", "rejected"} :
          UpdateBookingStatusReceive(1, user, id, status, "", "")
    \/ UpdateBookingStatusLoad(1)
    \/ UpdateBookingStatusSave(1)
    \/ \E slots \in {[given |-> FALSE, value |-> << >>],
                      [given |-> TRUE, value |-> <<Slot("09:00", "10:00", FALSE, NullId)>>]} :
          UpdateAvailabilityReceive(1, "p1", "2024-06-10", slots,
                                    [given |-> FALSE, value |-> FALSE])
    \/ UpdateAvailabilityStep(1)
    \/ \E bookingId \in BookingIdInputs :
          BookSlotReceive(1, "p1", "2024-06-10", "09:00", bookingId)
    \/ BookSlotStep(1)
    \/ \E bookingId \in BookingIdInputs :
          UnbookSlotReceive(1, "p1", "2024-06-10", "09:00", bookingId)
    \/ UnbookSlotStep(1)

SpecLedger == Init /\ [][NextLedger]_vars

ProcessBookingPaymentStep(r) ==
    \/ ProcessBookingPaymentLoad(r)
    \/ ProcessBookingPaymentUser(r)
    \/ ProcessBookingPaymentTry(r)

\* SpecWallet: customers c1 and c2 book service s1 and any user asks for any
\* booking to be paid from the wallet, two requests in flight together
NextWallet ==
    \/ \E r \in Req, user \in {"c1", "c2"}, date \in {"2024-06-10", "2024-06-11"},
          totalAmount \in TotalAmountInputs :
          CreateBookingReceive(r, user, "s1", date, "10:00", totalAmount)
    \/ \E r \in Req : CreateBookingStep(r)
    \/ \E r \in Req, user \in Users, bookingId \in BookingIdInputs :
          ProcessBookingPaymentReceive(r, user, bookingId)
    \/ \E r \in Req : ProcessBookingPaymentStep(r)

SpecWallet == Init /\ [][NextWallet]_vars

AddFundsStep(r) ==
    \/ AddFundsUser(r)
    \/ AddFundsSave(r)

\* SpecFunds: customer c1 books service s1 on two dates, asks for the bookings
\* to be paid from the wallet and adds funds, two requests in flight together
NextFunds ==
    \/ \E date \in {"2024-06-10", "2024-06-11"} :
          CreateBookingReceive(1, "c1", "s1", date, "10:00", 3000)
    \/ CreateBookingStep(1)
    \/ \E r \in Req, bookingId \in BookingIdInputs :
          ProcessBookingPaymentReceive(r, "c1", bookingId)
    \/ \E r \in Req : ProcessBookingPaymentStep(r)
    \/ \E r \in Req, amount \in AmountInputs : AddFundsReceive(r, "c1", amount)
    \/ \E r \in Req : AddFundsStep(r)

SpecFunds == Init /\ [][NextFunds]_vars

AddRatingStep(r) ==
    \/ AddRatingFind(r)
    \/ AddRatingSave(r)

CreateReviewStep(r) ==
    \/ CreateReviewFind(r)
    \/ CreateReviewInsert(r)
    \/ CreateReviewSave(r)

\* SpecRating: customer c1 books, provider p1 marks bookings completed, c1 and
\* p1 rate and review them, one HTTP request at a time
NextRating ==
    \/ \E date \in {"2024-06-10", "2024-06-11"} :
          CreateBookingReceive(1, "c1", "s1", date, "10:00", 3000)
    \/ CreateBookingStep(1)
    \/ \E id \in BookingIdInputs :
          UpdateBookingStatusReceive(1, "p1", id, "completed", "", "")
    \/ UpdateBookingStatusLoad(1)
    \/ UpdateBookingStatusSave(1)
    \/ \E user \in {"c1", "p1"}, id \in BookingIdInputs, rating \in RatingInputs :
          AddRatingReceive(1, user, id, rating)
    \/ AddRatingStep(1)
    \/ \E user \in {"c1", "p1"}, id \in BookingIdInputs, rating \in RatingInputs :
          CreateReviewReceive(1, user, id, rating)
    \/ CreateReviewStep(1)

SpecRating == Init /\ [][NextRating]_vars

GetServicesStep(r) ==
    \/ CacheMiddlewareGet(r)
    \/ GetServicesCached(r)
    \/ GetServicesFind(r)
    \/ GetServicesCache(r)

CreateServiceStep(r) ==
    \/ CreateServiceUser(r)
    \/ CreateServiceSave(r)
    \/ CreateServiceClear(r)

CacheResponseStep(r) ==
    \/ CacheResponseGet(r)
    \/ CacheResponseJson(r)

\* SpecCache: listings of services with the two parameter orders, requests
\* through cacheResponse, createService by a provider or a customer, and the
\* passing of time; one HTTP request at a time
NextCache ==
    \/ \E q \in QueryInputs : GetServicesReceive(1, q)
    \/ GetServicesStep(1)
    \/ \E user \in {"p1", "c1"} : CreateServiceReceive(1, user)
    \/ CreateServiceStep(1)
    \/ \E user \in {"", "c1"}, q \in QueryInputs, answer \in HandlerAnswers :
          CacheResponseReceive(1, user, q, answer)
    \/ CacheResponseStep(1)
    \/ Tick

SpecCache == Init /\ [][NextCache]_vars

CreateConversationStep(r) ==
    \/ CreateConversationUser(r)
    \/ CreateConversationFind(r)
    \/ CreateConversationSave(r)

SendMessageStep(r) ==
    \/ SendMessageFind(r)
    \/ SendMessageSave(r)
    \/ SendMessageUpdate(r)

MarkConversationAsReadStep(r) ==
    \/ MarkConversationAsReadFind(r)
    \/ MarkConversationAsReadLast(r)
    \/ MarkConversationAsReadSave(r)

GetMessagesStep(r) ==
    \/ GetMessagesFind(r)
    \/ GetMessagesLast(r)
    \/ GetMessagesSet(r)
    \/ GetMessagesPush(r)

GetLatestMessagesStep(r) ==
    \/ GetLatestMessagesFind(r)
    \/ GetLatestMessagesMessages(r)
    \/ GetLatestMessagesSet(r)

GetConversationsStep(r) ==
    \/ GetConversationsCached(r)
    \/ GetConversationsFind(r)
    \/ GetConversationsCount(r)
    \/ GetConversationsUpdate(r)
    \/ GetConversationsCache(r)

\* SpecChat: c1 opens a conversation with p1, both send messages, c1 lists the
\* conversations, reads and marks as read, and time passes; one HTTP request
\* at a time
NextChat ==
    \/ CreateConversationReceive(1, "c1", "p1")
    \/ CreateConversationStep(1)
    \/ \E user \in ChatUsers, id \in ConversationIdInputs : SendMessageReceive(1, user, id)
    \/ SendMessageStep(1)
    \/ \E id \in ConversationIdInputs : MarkConversationAsReadReceive(1, "c1", id)
    \/ MarkConversationAsReadStep(1)
    \/ \E id \in ConversationIdInputs : GetMessagesReceive(1, "c1", id)
    \/ GetMessagesStep(1)
    \/ \E id \in ConversationIdInputs : GetLatestMessagesReceive(1, "c1", id)
    \/ GetLatestMessagesStep(1)
    \/ \E page \in PageInputs : GetConversationsReceive(1, "c1", page)
    \/ GetConversationsStep(1)
    \/ Tick

SpecChat == Init /\ [][NextChat]_vars

\* SpecChatRace: c1 opens a conversation with p1, p1 sends messages, and c1
\* marks as read and reads from two clients at once
NextChatRace ==
    \/ CreateConversationReceive(1, "c1", "p1")
    \/ CreateConversationStep(1)
    \/ \E id \in ConversationIdInputs : SendMessageReceive(1, "p1", id)
    \/ SendMessageStep(1)
    \/ \E r \in Req :
          \/ \E id \in ConversationIdInputs : MarkConversationAsReadReceive(r, "c1", id)
          \/ MarkConversationAsReadStep(r)
          \/ \E id \in ConversationIdInputs : GetMessagesReceive(r, "c1", id)
          \/ GetMessagesStep(r)
          \/ \E id \in ConversationIdInputs : GetLatestMessagesReceive(r, "c1", id)
          \/ GetLatestMessagesStep(r)

SpecChatRace == Init /\ [][NextChatRace]_vars

SearchServicesStep(r) ==
    \/ SearchServicesCached(r)
    \/ SearchServicesFind(r)
    \/ SearchServicesCache(r)

\* SpecSearch: searches with the two parameter orders, reads of one service
\* that exists and of one that does not, createService by a provider, and the
\* passing of time; one HTTP request at a time
NextSearch ==
    \/ \E q \in QueryInputs : SearchServicesReceive(1, q)
    \/ CacheMiddlewareGet(1)
    \/ SearchServicesStep(1)
    \/ \E id \in {"s1", "s9"} : GetServiceByIdReceive(1, id)
    \/ GetServiceByIdFind(1)
    \/ CreateServiceReceive(1, "p1")
    \/ CreateServiceStep(1)
    \/ Tick

SpecSearch == Init /\ [][NextSearch]_vars

\* SpecNoRedis: the cached reads on a server that started without Redis
NextNoRedis ==
    \/ \E q \in QueryInputs : GetServicesReceive(1, q)
    \/ GetServicesStep(1)
    \/ \E q \in QueryInputs : SearchServicesReceive(1, q)
    \/ SearchServicesCached(1)
    \/ \E user \in {"", "c1"}, q \in QueryInputs, answer \in HandlerAnswers :
          CacheResponseReceive(1, user, q, answer)
    \/ CacheResponseStep(1)
    \/ CreateConversationReceive(1, "c1", "p1")
    \/ CreateConversationStep(1)
    \/ \E page \in PageInputs : GetConversationsReceive(1, "c1", page)
    \/ GetConversationsStep(1)
    \/ CreateServiceReceive(1, "p1")
    \/ CreateServiceStep(1)
    \/ Tick

SpecNoRedis == InitNoRedis /\ [][NextNoRedis]_vars

(***************************************************************************)
(* Properties of createBooking and updateBookingStatus                     *)
(***************************************************************************)
\* C1: of createBooking requests for the same (provider, date, time) in flight
\* together at most one creates a Booking: a request inserts its Booking only
\* when no booking of that (provider, date, time) with status pending, confirmed
\* or in_progress is stored (the second of two racing requests finds the
\* first one's booking and fails instead).
C1_AtMostOneBookingCreated ==
    [][\A r \in Req :
          (req[r].pc = "cb_save" /\ Len(bookings') = Len(bookings) + 1
              /\ bookings'[Len(bookings')].customer = req[r].user)
          => ~\E i \in BookingIds :
                 /\ bookings[i].provider = req[r].provider
                 /\ bookings[i].date = req[r].date
                 /\ bookings[i].time = req[r].time
                 /\ bookings[i].status \in {"pending", "confirmed", "in_progress"}]_vars

ConflictAnswer ==
    [pc |-> "done", op |-> "createBooking", code |-> 400,
     error |-> "Provider is not available at this time"]

\* C3: a createBooking request for an active service, made by a user other than
\* its provider, whose conflict query runs when a booking of the same (provider,
\* date, time) has status pending, confirmed or in_progress is answered 400
\* 'Provider is not available at this time' and leaves the bookings as they were.
C3_ExistingBookingRefusesCreate ==
    [][\A r \in Req :
          ( /\ req[r].pc = "cb_find"
            /\ req'[r] # req[r]
            /\ req[r].service \in DOMAIN ServiceTable
            /\ ServiceTable[req[r].service].isActive
            /\ ServiceTable[req[r].service].provider # req[r].user
            /\ \E i \in BookingIds :
                  /\ bookings[i].provider = ServiceTable[req[r].service].provider
                  /\ bookings[i].date = ParseDate(req[r].date)
                  /\ bookings[i].time = req[r].time
                  /\ bookings[i].status \in {"pending", "confirmed", "in_progress"} )
          => (req'[r] = ConflictAnswer /\ bookings' = bookings)]_vars

\* C3 witness: a createBooking was refused with the conflict while the booking
\* holding that time was in progress.
C3_Witness ==
    /\ req[1] = ConflictAnswer
    /\ Len(bookings) = 1
    /\ bookings[1].status = "in_progress"

\* C4: an updateBookingStatus request on a booking whose status is completed is
\* rejected, whatever its target status, actor, newDate and newTime.
C4_CompletedIsFinal ==
    [][\A r \in Req :
          ( /\ req[r].pc = "ub_load"
            /\ req'[r] # req[r]
            /\ req[r].id \in BookingIds
            /\ bookings[req[r].id].status = "completed" )
          => (req'[r].pc = "done" /\ req'[r].code >= 400 /\ bookings' = bookings)]_vars

StateMachineEdges ==
    {<<"pending", "confirmed">>, <<"pending", "rejected">>,
     <<"confirmed", "in_progress">>, <<"confirmed", "cancelled">>,
     <<"confirmed", "rescheduled">>, <<"in_progress", "completed">>}

\* C5: every change of a booking's status that updateBookingStatus saves is an
\* edge of the state machine pending->{confirmed, rejected},
\* confirmed->{in_progress, cancelled, rescheduled}, in_progress->completed.
C5_TransitionsFollowStateMachine ==
    [][\A r \in Req :
          (req[r].pc \in {"ub_save", "ub_reschedule"} /\ req'[r] # req[r])
          => \A id \in BookingIds :
                \/ bookings'[id].status = bookings[id].status
                \/ <<bookings[id].status, bookings'[id].status>> \in StateMachineEdges]_vars

\* C7: whatever entry point changes it, the stored status of every booking is
\* one of the seven defined statuses.
C7_StoredStatusIsDefined ==
    \A id \in BookingIds : bookings[id].status \in StatusEnum

\* C8: a reschedule request (newDate and/or newTime given) goes on to the
\* conflict query exactly when the actor is the booking's customer and the
\* booking is confirmed, passes the conflict query exactly when no other booking
\* of the provider at the new (date, time) is pending, confirmed or in_progress,
\* and is then answered 200 with status rescheduled and the new date and time
\* stored; a refused request changes no booking.
C8_RescheduleAcceptedIff ==
    [][\A r \in Req :
          /\ ( /\ req[r].pc = "ub_load"
               /\ req'[r] # req[r]
               /\ req[r].id \in BookingIds
               /\ req[r].newDate # "" \/ req[r].newTime # "" )
             => /\ req'[r].pc = "ub_find"
                   <=> /\ bookings[req[r].id].customer = req[r].user
                       /\ bookings[req[r].id].status = "confirmed"
                /\ req'[r].pc \in {"ub_find", "done"}
                /\ bookings' = bookings
          /\ (req[r].pc = "ub_find" /\ req'[r] # req[r])
             => /\ req'[r].pc = "ub_reschedule"
                   <=> ~\E i \in BookingIds \ {req[r].id} :
                          /\ bookings[i].provider = req[r].provider
                          /\ bookings[i].date = req[r].newBookingDate
                          /\ bookings[i].time = req[r].newBookingTime
                          /\ bookings[i].status \in {"pending", "confirmed", "in_progress"}
                /\ bookings' = bookings
          /\ (req[r].pc = "ub_reschedule" /\ req'[r] # req[r])
             => /\ req'[r].code = 200
                /\ bookings'[req[r].id].status = "rescheduled"
                /\ bookings'[req[r].id].date = req[r].newBookingDate
                /\ bookings'[req[r].id].time = req[r].newBookingTime]_vars

\* C6: an updateBookingStatus request with target confirmed, rejected or
\* completed by anyone but the booking's provider, or with target cancelled by
\* anyone but the booking's customer, is answered 403 and changes no booking.
C6_RoleGate ==
    [][\A r \in Req :
          ( /\ req[r].pc = "ub_load"
            /\ req'[r] # req[r]
            /\ req[r].id \in BookingIds
            /\ \/ /\ req[r].status \in {"confirmed", "rejected", "completed"}
                  /\ bookings[req[r].id].provider # req[r].user
               \/ /\ req[r].status = "cancelled"
                  /\ bookings[req[r].id].customer # req[r].user )
          => (req'[r].pc = "done" /\ req'[r].code = 403 /\ bookings' = bookings)]_vars

\* C6 witness: the customer asked for completed and was refused.
C6_Witness ==
    /\ req[1].pc = "done"
    /\ req[1].code = 403
    /\ req[1].error = "Only provider can mark booking as completed"

(***************************************************************************)
(* Properties of the availability ledger                                   *)
(***************************************************************************)
\* C2: of bookSlot calls with different bookingIds for the same (provider, date,
\* startTime) in flight together exactly one succeeds: no call is answered with
\* success when its write is applied to a slot that another bookingId has booked
\* (that call is answered 'Time slot is already booked' instead).
C2_OneReservationWins ==
    [][\A r \in Req :
          (req[r].pc = "bs_save" /\ req'[r].pc = "done" /\ req'[r].code = 200)
          => ~( /\ days[req[r].key].slots[req[r].slotIndex].isBooked
                /\ days[req[r].key].slots[req[r].slotIndex].bookingId # req[r].bookingId )]_vars

\* C9: every slot with isBooked = true carries the id of an existing booking
\* whose status is neither cancelled nor rejected.
C9_BookedSlotHasActiveBooking ==
    \A k \in DOMAIN days :
        days[k].exists =>
            \A i \in 1..Len(days[k].slots) :
                days[k].slots[i].isBooked =>
                    /\ days[k].slots[i].bookingId \in BookingIds
                    /\ bookings[days[k].slots[i].bookingId].status
                           \notin {"cancelled", "rejected"}

\* C10: no AvailabilityDay holds two slots with the same startTime.
C10_UniqueStartTimes ==
    \A k \in DOMAIN days :
        days[k].exists =>
            \A i, j \in 1..Len(days[k].slots) :
                i # j => days[k].slots[i].startTime # days[k].slots[j].startTime

(***************************************************************************)
(* Properties of getAvailability, bookSlot and unbookSlot                  *)
(***************************************************************************)
DefaultGrid ==
    <<Slot("08:00", "09:00", FALSE, NullId), Slot("09:00", "10:00", FALSE, NullId),
      Slot("10:00", "11:00", FALSE, NullId), Slot("11:00", "12:00", FALSE, NullId),
      Slot("12:00", "13:00", FALSE, NullId), Slot("13:00", "14:00", FALSE, NullId),
      Slot("14:00", "15:00", FALSE, NullId), Slot("15:00", "16:00", FALSE, NullId),
      Slot("16:00", "17:00", FALSE, NullId), Slot("17:00", "18:00", FALSE, NullId),
      Slot("18:00", "19:00", FALSE, NullId), Slot("19:00", "20:00", FALSE, NullId)>>

\* C11: a getAvailability request with a providerId whose (provider, start of
\* day) has no AvailabilityDay goes on to create one, and the day it creates has
\* exactly the 12 slots 08:00-09:00, ..., 19:00-20:00, each with isBooked = false
\* and bookingId = null, and isAvailable = true; the request is answered 200 and
\* no other day changes.
C11_DefaultDayCreated ==
    [][\A r \in Req :
          /\ ( /\ req[r].pc = "ga_find"
               /\ req'[r] # req[r]
               /\ req[r].providerId # ""
               /\ ~FindDay(req[r].providerId,
                           StartOfDay(IF req[r].date # "" THEN ParseDate(req[r].date)
                                      ELSE Now)).exists )
             => /\ req'[r].pc = "ga_create"
                /\ req'[r].key = <<req[r].providerId,
                                   StartOfDay(IF req[r].date # "" THEN ParseDate(req[r].date)
                                              ELSE Now)>>
          /\ ( /\ req[r].pc = "ga_create"
               /\ req'[r] # req[r]
               /\ ~days[req[r].key].exists )
             => /\ days' = [days EXCEPT ![req[r].key] =
                              [exists |-> TRUE, slots |-> DefaultGrid, isAvailable |-> TRUE]]
                /\ req'[r].pc = "done"
                /\ req'[r].code = 200]_vars

\* C11 witness: getAvailability has answered 200 and the day of 2024-06-10 is
\* stored with the default grid while the day of 2024-06-11 was never created.
C11_Witness ==
    /\ req[1].pc = "done"
    /\ req[1].op = "getAvailability"
    /\ req[1].code = 200
    /\ days[<<"p1", 0>>].exists
    /\ days[<<"p1", 0>>].slots = DefaultGrid
    /\ ~days[<<"p1", 24>>].exists

\* C12: a (provider, date) pair never gets a second AvailabilityDay: whatever
\* the interleaving of getAvailability, getAvailabilityRange and
\* updateAvailability requests, a record is inserted for a pair only when the
\* pair has none; and getAvailability leaves an existing day as it is and
\* answers with the stored slot grid, so that two calls with no mutation in
\* between return the same grid.
C12_OneDayPerPair ==
    [][\A r \in Req :
          /\ (req[r].pc \in {"ga_create", "ua_create"} /\ req'[r] # req[r] /\ days' # days)
             => (~days[req[r].key].exists /\ days'[req[r].key].exists)
          /\ (req[r].pc = "gr_create" /\ req'[r] # req[r] /\ days' # days)
             => /\ ~days[<<req[r].providerId, Head(req[r].todo)>>].exists
                /\ days'[<<req[r].providerId, Head(req[r].todo)>>].exists
          /\ (req[r].pc \in {"ga_find", "ga_create"} /\ req'[r] # req[r])
             => /\ \A k \in DOMAIN days : days[k].exists => days'[k] = days[k]
                /\ (req'[r].pc = "done" /\ req'[r].code = 200)
                      => LET k == IF req[r].pc = "ga_create" THEN req[r].key
                                  ELSE <<req[r].providerId,
                                         StartOfDay(IF req[r].date # ""
                                                    THEN ParseDate(req[r].date) ELSE Now)>>
                         IN days'[k].exists /\ req'[r].data = days'[k].slots]_vars

\* C12 witness: two getAvailability requests raced for a missing day; one
\* created it and returned its grid, the other's insert was refused.
C12_Witness ==
    /\ req[1].pc = "done" /\ req[1].op = "getAvailability" /\ req[1].code = 200
    /\ req[2].pc = "done" /\ req[2].op = "getAvailability" /\ req[2].code = 500
    /\ req[1].data = days[<<"p1", 0>>].slots

\* C13: a bookSlot request with date, startTime and bookingId whose day exists
\* is answered 400 'Time slot not found' when no slot of the day has the
\* startTime, 400 'Time slot is already booked' (a different message) when the
\* first slot with the startTime has isBooked = true, in both cases leaving every
\* day as it was; otherwise it sets isBooked = true and bookingId = the given id
\* on that slot, changes nothing else and is answered 200.
C13_BookSlotOutcomes ==
    [][\A r \in Req :
          /\ ( /\ req[r].pc = "bs_load"
               /\ req'[r] # req[r]
               /\ req[r].date # "" /\ req[r].startTime # "" /\ req[r].bookingId # NullId
               /\ FindDay(req[r].user, StartOfDay(ParseDate(req[r].date))).exists )
             => LET key == <<req[r].user, StartOfDay(ParseDate(req[r].date))>>
                    slots == days[key].slots
                    matching == {i \in 1..Len(slots) : slots[i].startTime = req[r].startTime}
                    first == CHOOSE i \in matching : \A j \in matching : i <= j
                IN /\ days' = days
                   /\ IF matching = {}
                      THEN req'[r] = [pc |-> "done", op |-> "bookSlot", code |-> 400,
                                      error |-> "Time slot not found"]
                      ELSE IF slots[first].isBooked
                      THEN req'[r] = [pc |-> "done", op |-> "bookSlot", code |-> 400,
                                      error |-> "Time slot is already booked"]
                      ELSE /\ req'[r].pc = "bs_save"
                           /\ req'[r].key = key
                           /\ req'[r].slotIndex = first
                           /\ req'[r].bookingId = req[r].bookingId
          /\ (req[r].pc = "bs_save" /\ req'[r] # req[r])
             => /\ days' = [days EXCEPT ![req[r].key].slots[req[r].slotIndex] =
                              [@ EXCEPT !.isBooked = TRUE, !.bookingId = req[r].bookingId]]
                /\ req'[r].pc = "done"
                /\ req'[r].code = 200]_vars

\* C13 witness: a bookSlot request was refused as already booked for the 09:00
\* slot that an earlier bookSlot had given to booking 1.
C13_Witness ==
    /\ req[1].pc = "done"
    /\ req[1].op = "bookSlot"
    /\ req[1].error = "Time slot is already booked"
    /\ days[<<"p1", 0>>].exists
    /\ \E i \in 1..Len(days[<<"p1", 0>>].slots) :
          /\ days[<<"p1", 0>>].slots[i].startTime = "09:00"
          /\ days[<<"p1", 0>>].slots[i].isBooked
          /\ days[<<"p1", 0>>].slots[i].bookingId = 1

\* C14: an unbookSlot request with date, startTime and bookingId whose day
\* exists is answered 400 'Time slot not found or does not match booking',
\* leaving every day as it was, whenever no slot with the startTime carries the
\* bookingId (a slot whose bookingId is null included); otherwise it sets
\* isBooked = false and bookingId = null on that slot, changes nothing else and
\* is answered 200.
C14_UnbookSlotOutcomes ==
    [][\A r \in Req :
          /\ ( /\ req[r].pc = "us_load"
               /\ req'[r] # req[r]
               /\ req[r].date # "" /\ req[r].startTime # "" /\ req[r].bookingId # NullId
               /\ FindDay(req[r].user, StartOfDay(ParseDate(req[r].date))).exists )
             => LET key == <<req[r].user, StartOfDay(ParseDate(req[r].date))>>
                    slots == days[key].slots
                    attached == {i \in 1..Len(slots) :
                                    /\ slots[i].startTime = req[r].startTime
                                    /\ slots[i].bookingId = req[r].bookingId}
                IN /\ days' = days
                   /\ IF attached = {}
                      THEN req'[r] = [pc |-> "done", op |-> "unbookSlot", code |-> 400,
                                      error |-> "Time slot not found or does not match booking"]
                      ELSE /\ req'[r].pc = "us_save"
                           /\ req'[r].key = key
                           /\ req'[r].slotIndex \in attached
          /\ (req[r].pc = "us_save" /\ req'[r] # req[r])
             => /\ days' = [days EXCEPT ![req[r].key].slots[req[r].slotIndex] =
                              [@ EXCEPT !.isBooked = FALSE, !.bookingId = NullId]]
                /\ req'[r].pc = "done"
                /\ req'[r].code = 200]_vars

(***************************************************************************)
(* Properties of processBookingPayment                                     *)
(***************************************************************************)
RECURSIVE PaidTotal(_, _, _)
\* the sum of totalAmount over the paid bookings 1..n in which user u has the role
PaidTotal(u, role, n) ==
    IF n = 0 THEN 0
    ELSE PaidTotal(u, role, n - 1)
         + (IF bookings[n][role] = u /\ bookings[n].paymentStatus = "paid"
            THEN bookings[n].totalAmount ELSE 0)

LedgerEntries(type, id) ==
    {i \in 1..Len(transactions) : transactions[i].type = type /\ transactions[i].bookingId = id}

C16_PaymentApplied ==
    [][\A r \in Req :
          /\ ( /\ req[r].pc = "pp_load"
               /\ req'[r] # req[r]
               /\ req[r].id \in BookingIds
               /\ bookings[req[r].id].customer = req[r].user
               /\ bookings[req[r].id].paymentStatus = "pending" )
             => req'[r].pc = "pp_user"
          /\ ( /\ req[r].pc = "pp_user"
               /\ req'[r] # req[r]
               /\ wallets[req[r].user].balance >= req[r].totalAmount )
             => req'[r].pc = "pp_try"
          /\ (req[r].pc = "pp_try" /\ req'[r] # req[r])
             => /\ req'[r].pc = "pp_try" \/ (req'[r].pc = "done" /\ req'[r].code = 200)
                /\ req'[r].pc = "done"
                      => /\ wallets'[req[r].user].balance = req[r].balance - req[r].totalAmount
                         /\ wallets'[req[r].provider].balance
                               = req[r].providerBalance + req[r].totalAmount
                         /\ bookings'[req[r].id].paymentStatus = "paid"
                         /\ \E d, c \in 1..Len(transactions') :
                               /\ {i \in 1..Len(transactions') :
                                      /\ transactions'[i].type = "debit"
                                      /\ transactions'[i].bookingId = req[r].id} = {d}
                               /\ transactions'[d].user = req[r].user
                               /\ {i \in 1..Len(transactions') :
                                      /\ transactions'[i].type = "credit"
                                      /\ transactions'[i].bookingId = req[r].id} = {c}
                               /\ transactions'[c].user = req[r].provider]_vars

C18_RatingSetOnce ==
    [][\A id \in BookingIds :
          bookings'[id].rating # bookings[id].rating
          => /\ bookings[id].rating = NoRating
             /\ bookings[id].status = "completed"
             /\ \E r \in Req : /\ req'[r] # req[r]
                                /\ req[r].user = bookings[id].customer]_vars

\* C19: when a miss has populated a cache store, a hit on the same key answers
\* with the payload the miss answered with: for cacheMiddleware's store, for
\* the entry getServices writes through redisService, and for cacheResponse.
C19_HitReturnsMissPayload ==
    [][\A r \in Req :
          /\ req'[r] # req[r]
          /\ req'[r].pc = "done"
          => /\ req[r].pc = "gs_cache"
                => /\ JsonValue(cache'[req[r].key].value) = req'[r].data
                   /\ JsonValue(GetServicesHit(JsonParse(
                          redis'[GetServicesKey(req[r].query)].value))) = req'[r].data
             /\ req[r].pc = "crs_json" /\ req'[r].code < 400
                => JsonValue(JsonParse(redis'[req[r].key].value)) = req'[r].data]_vars

\* two queries with the same name/value pairs, in any order
SameParameters(q1, q2) ==
    /\ Len(q1) = Len(q2)
    /\ {q1[i] : i \in 1..Len(q1)} = {q2[i] : i \in 1..Len(q2)}

\* C20: the cache key derived for a request is the key derived for every
\* request to the same endpoint whose query holds the same name/value pairs in
\* another order: the URL key of cacheMiddleware, the keys of getServices and
\* searchServices, and cacheKeyGenerators.services and .categories.
C20_KeyIgnoresParameterOrder ==
    \A r \in Req : \A q \in QueryInputs :
       /\ req[r].pc \in {"cm_get", "gs_get", "gs_find", "gs_cache", "crs_get", "crs_json"}
       /\ SameParameters(q, req[r].query)
       => /\ req[r].pc \in {"cm_get", "gs_get", "gs_find", "gs_cache"}
             => /\ CacheMiddlewareKey("/api/services", q) = req[r].key
                /\ GetServicesKey(q) = GetServicesKey(req[r].query)
                /\ SearchServicesKey(q) = SearchServicesKey(req[r].query)
          /\ req[r].pc \in {"crs_get", "crs_json"}
             => /\ ServicesKeyGenerator(q) = ServicesKeyGenerator(req[r].query)
                /\ CategoriesKeyGenerator(q) = CategoriesKeyGenerator(req[r].query)

\* C21: a getConversations request never uses the cache key that a request of
\* the same user for another page uses.
C21_PagesHaveOwnKeys ==
    \A r \in Req : \A page \in PageInputs :
       /\ req[r].pc \in {"gc_get", "gc_find", "gc_count", "gc_update", "gc_cache"}
       /\ ParseIntOr(page, "1") # req[r].page
       => ConversationsKey(req[r].user) # req[r].key

\* C22: when createService has answered 201, neither cache store holds an
\* entry of the services listing, for any query variant.
C22_WriteClearsListing ==
    [][\A r \in Req :
          /\ req[r].pc = "cs_clear"
          /\ req'[r].pc = "done"
          /\ req'[r].code = 201
          => \A q \in QueryInputs :
                /\ CacheMiddlewareKey("/api/services", q) \notin DOMAIN cache'
                /\ GetServicesKey(q) \notin DOMAIN redis']_vars

\* C23: on a server without a Redis client, no cached read (getServices,
\* searchServices, getConversations, a route behind cacheResponse) is
\* answered with a server error.
C23_ReadsSurviveWithoutRedis ==
    [][\A r \in Req :
          /\ redisClient # "ready"
          /\ req'[r] # req[r]
          /\ req'[r].pc = "done"
          /\ req'[r].op \in {"getServices", "searchServices", "getConversations",
                             "cacheResponse"}
          => req'[r].code < 500]_vars

\* C24: when a cached GET handler answers with an error status, its key holds
\* no entry afterwards, in either store.
C24_ErrorsAreNotCached ==
    [][\A r \in Req :
          /\ req'[r] # req[r]
          /\ req'[r].pc = "done"
          /\ req'[r].op \in {"searchServices", "getServiceById", "cacheResponse"}
          /\ req'[r].code >= 400
          => /\ req[r].key \notin DOMAIN cache'
             /\ req[r].key \notin DOMAIN redis']_vars

\* C25: every getConversations answer, served from the cache or not, reports
\* for each conversation the number of messages of other senders created after
\* the requesting user's lastReadAt, as it is when the answer is sent.
C25_UnreadCountIsCurrent ==
    [][\A r \in Req :
          /\ req'[r] # req[r]
          /\ req'[r].pc = "done"
          /\ req'[r].op = "getConversations"
          => \A i \in 1..Len(req'[r].data.data) :
                LET item == req'[r].data.data[i]
                IN item.unreadCount =
                      CountUnread(item.conversation, req[r].user,
                                  conversations'[item.conversation].participantReadStatus)]_vars

\* C26: when markConversationAsRead, getMessages or getLatestMessages has
\* answered 200 for a conversation with at least one message, the user's read
\* status exists, with lastReadMessage the newest message, lastReadAt the
\* current time and unreadCount 0.
C26_MarkedAsRead ==
    [][\A r \in Req :
          /\ req'[r] # req[r]
          /\ req'[r].pc = "done"
          /\ req'[r].op \in {"markConversationAsRead", "getMessages", "getLatestMessages"}
          /\ req'[r].code = 200
          /\ LastMessage(req[r].id) # NoMessage
          => LET statuses == conversations'[req[r].id].participantReadStatus
                 i == ReadStatusIndex(statuses, req[r].user)
             IN /\ i # 0
                /\ statuses[i].lastReadMessage = LastMessage(req[r].id)
                /\ statuses[i].lastReadAt = ChatNow
                /\ statuses[i].unreadCount = 0]_vars

\* C27: in every state a conversation's participantReadStatus holds at most
\* one entry per user.
C27_OneReadStatusPerParticipant ==
    \A c \in 1..Len(conversations) :
       \A i, j \in 1..Len(conversations[c].participantReadStatus) :
          conversations[c].participantReadStatus[i].user =
              conversations[c].participantReadStatus[j].user => i = j

\* C28: every step of createBooking, of a status change or of a reschedule
\* that reaches Notification.create, whether the notification is created or
\* not, persists the booking, the new status or the new date and time, and
\* answers with a success code.
C28_NotificationFailureIsHarmless ==
    [][\A r \in Req :
          /\ req'[r] # req[r]
          /\ req[r].pc \in {"cb_save", "ub_save", "ub_reschedule"}
          => /\ req'[r].code < 400
             /\ req[r].pc = "cb_save" => Len(bookings') = Len(bookings) + 1
             /\ req[r].pc = "ub_save" =>
                   ("status" \in req[r].modified =>
                       bookings'[req[r].id].status = req[r].status)
             /\ req[r].pc = "ub_reschedule" =>
                   /\ bookings'[req[r].id].date = req[r].newBookingDate
                   /\ bookings'[req[r].id].time = req[r].newBookingTime
                   /\ bookings'[req[r].id].status = "rescheduled"]_vars

\* C29: in every state at most one booking per (provider, date, time) has a
\* slot-occupying status, that is, a status other than completed, cancelled or
\* rejected.
C29_OneOccupantPerSlot ==
    \A i, j \in BookingIds :
       /\ bookings[i].provider = bookings[j].provider
       /\ bookings[i].date = bookings[j].date
       /\ bookings[i].time = bookings[j].time
       /\ bookings[i].status \notin {"completed", "cancelled", "rejected"}
       /\ bookings[j].status \notin {"completed", "cancelled", "rejected"}
       => i = j

TotalBalance == wallets["p1"].balance + wallets["c1"].balance + wallets["c2"].balance

RECURSIVE Deposited(_)
\* the sum of the amounts of the addFunds records among ledger entries 1..n
Deposited(n) ==
    IF n = 0 THEN 0
    ELSE Deposited(n - 1)
         + (IF transactions[n].type = "credit" /\ transactions[n].bookingId = NullId
            THEN transactions[n].amount ELSE 0)

Quiescent == \A r \in Req : req[r].pc \in {"idle", "done"}

====
